---- MODULE Spec2Model ----
(***************************************************************************)
(* Storybook MCP API: the tool handlers of createToolHandlers (server.js)  *)
(* over an inventory service (index.json over HTTP) and a project file     *)
(* system, the MCP protocol handler and the Express application that serve *)
(* them (REST, Streamable HTTP and SSE), and the static API generation of  *)
(* index.js.                                                               *)
(*                                                                         *)
(* JavaScript values are modelled as follows:                              *)
(*   - an object is a record; a property that is undefined is a field the  *)
(*     record does not have (JSON.stringify drops undefined properties);   *)
(*   - an object whose property order matters (index.json "entries", the   *)
(*     "stories" mapping of a story file) is a sequence of <<key, value>>; *)
(*   - a string built by a template literal is the sequence of its parts;  *)
(*   - a path is the sequence of its segments; path + ext appends ext;     *)
(*   - a call that may throw yields a completion: Return(v) or Throw(msg). *)
(***************************************************************************)
EXTENDS Integers, Sequences, FiniteSets, TLC

VARIABLES
  service,    \* the inventory service behind `${storybookUrl}/index.json`
  fs,         \* the project directory: framework signature and files
  lastCall,   \* the most recent handler invocation: what it was given, the
              \* inventory as it was at the call, and how it completed
  changed,    \* whether the inventory changed since that invocation
  app,        \* what createApp built: the framework it detected and the
              \* closures of the tool handlers and of the MCP handler
  http,       \* the most recent HTTP exchange: the request, the inventory and
              \* the project directory as they were, and the response
  initialized, \* whether an `initialize` request was handled before
  sessions,   \* sseSessions: sessionId -> the session (its stream, createdAt)
  streams,    \* the SSE connections, in the order they were made: the
              \* sessionId const of the connection, whether the client is
              \* still there, and what was written to the stream, in order
  timers,     \* the connections whose keep-alive interval is set
  inflight,   \* the requests being handled, suspended at an await
  staticDir,  \* the static Storybook build: index.json and the api directory
  clock       \* Date.now()

handlerVars == <<lastCall, changed>>
transportVars == <<http, initialized, sessions, streams, timers, inflight>>
vars == <<service, fs, lastCall, changed, app, http, initialized, sessions,
          streams, timers, inflight, staticDir, clock>>

(***************************************************************************)
(* Bounds                                                                  *)
(***************************************************************************)
MaxEntries == 2      \* entries in index.json
MaxCandidates == 2   \* component candidate files that exist at once
MaxVariants == 2     \* named story variants in a story file

(***************************************************************************)
(* JavaScript objects                                                      *)
(***************************************************************************)
EmptyObject == [k \in {} |-> TRUE]

Has(o, f) == f \in DOMAIN o

SetProp(o, f, v) == [k \in DOMAIN o \cup {f} |-> IF k = f THEN v ELSE o[k]]

\* o[f] = src[g], where src[g] may be undefined
CopyProp(o, f, src, g) == IF Has(src, g) THEN SetProp(o, f, src[g]) ELSE o

None == [none |-> TRUE]
IsNone(x) == Has(x, "none")

Undefined == [jstype |-> "undefined"]
IsUndefined(x) == Has(x, "jstype")

Return(v) == [kind |-> "return", value |-> v]
Throw(m) == [kind |-> "throw", message |-> m]

\* ordered mappings
Keys(m) == {m[i][1] : i \in DOMAIN m}
ObjectValues(m) == [i \in DOMAIN m |-> m[i][2]]
IndexOfKey(m, k) == CHOOSE i \in DOMAIN m : m[i][1] = k

\* Properties every plain object inherits from Object.prototype: a property
\* read obj[key] finds them when obj has no own property of that name.
ObjectPrototype == [constructor |-> [name |-> "Object"]]

\* obj?.[key]
GetProp(m, k) ==
  IF k \in Keys(m) THEN m[IndexOfKey(m, k)][2]
  ELSE IF k \in DOMAIN ObjectPrototype THEN ObjectPrototype[k]
  ELSE Undefined

(***************************************************************************)
(* Configuration                                                           *)
(***************************************************************************)
storybookUrl == "http://localhost:6010"
projectDir == <<"project">>

(***************************************************************************)
(* The inventory service                                                   *)
(***************************************************************************)
StoryImportPath == <<".", "src", "button.stories.ts">>
MdxImportPath == <<".", "src", "button.mdx">>

KeyPool == <<"button--primary", "button--docs", "card--default">>
StoryKeys == {KeyPool[i] : i \in 1..Len(KeyPool)}

\* The entries index.json can hold under a key: a story entry, a partial one
\* (no importPath, no tags, no type), a docs entry and an entry that still
\* carries the kind field.
EntriesFor(k) ==
  CASE k = "button--primary" ->
         { [id |-> k, name |-> "Primary", title |-> "Example/Button",
            importPath |-> StoryImportPath, tags |-> <<"autodocs">>,
            type |-> "story"],
           [id |-> k, name |-> "Primary", title |-> "Example/Button"] }
    [] k = "button--docs" ->
         { [id |-> k, name |-> "Docs", title |-> "Example/Button",
            importPath |-> MdxImportPath, tags |-> <<"docs">>,
            type |-> "docs"] }
    [] OTHER ->
         { [id |-> k, name |-> "Default", title |-> "Example/Card",
            kind |-> "Card", importPath |-> StoryImportPath,
            type |-> "story"] }

RECURSIVE EntryMaps(_)
EntryMaps(n) ==
  IF n = 0 THEN {<<>>}
  ELSE LET shorter == EntryMaps(n - 1) IN
       shorter \cup
       { Append(m, <<k, e>>) :
           m \in {s \in shorter : Len(s) = n - 1},
           k \in StoryKeys, e \in UNION {EntriesFor(kk) : kk \in StoryKeys} }

WellFormed(m) ==
  /\ \A i \in DOMAIN m : m[i][2] \in EntriesFor(m[i][1])
  /\ \A i, j \in DOMAIN m : m[i][1] = m[j][1] => i = j

Inventories == {m \in EntryMaps(MaxEntries) : WellFormed(m)}

Services ==
  { [status |-> "unreachable"], [status |-> "starting"],
    [status |-> "malformed"], [status |-> "ok", data |-> [v |-> 5]] }
  \cup { [status |-> "ok", data |-> [v |-> 5, entries |-> m]] :
           m \in Inventories }

\* node-fetch rejects a URL that is not absolute
RelativeUrlMessage == <<"Only absolute URLs are supported">>

FetchErrorMessage ==
  <<"request to ", storybookUrl, "/index.json failed, reason: connect ECONNREFUSED">>
JsonErrorMessage ==
  <<"invalid json response body at ", storybookUrl, "/index.json reason: Unexpected token">>

\* fetch as a bug would have it: index.json is fetched once and the snapshot
\* of the first call is served to every later call
fetchCached(svc) ==
  LET seen == IF lastCall.op # "none" THEN lastCall.inventory ELSE svc IN
  CASE seen.status = "relative" -> Throw(RelativeUrlMessage)
    [] seen.status = "unreachable" -> Throw(FetchErrorMessage)
    [] seen.status = "starting" -> Return([ok |-> FALSE])
    [] seen.status = "malformed" -> Return([ok |-> TRUE])
    [] OTHER -> Return([ok |-> TRUE, body |-> seen.data])

\* await fetch(`${storybookUrl}/index.json`)
fetch(svc) ==
  CASE svc.status = "relative" -> Throw(RelativeUrlMessage)
    [] svc.status = "unreachable" -> Throw(FetchErrorMessage)
    [] svc.status = "starting" -> Return([ok |-> FALSE])
    [] svc.status = "malformed" -> Return([ok |-> TRUE])
    [] OTHER -> Return([ok |-> TRUE, body |-> svc.data])

\* await response.json()
json(response) ==
  IF Has(response, "body") THEN Return(response.body)
  ELSE Throw(JsonErrorMessage)

\* data.entries || {}
EntriesOrEmpty(data) == IF Has(data, "entries") THEN data.entries ELSE <<>>

\* data.entries?.[key]
EntryAt(data, key) ==
  IF Has(data, "entries") THEN GetProp(data.entries, key) ELSE Undefined

(***************************************************************************)
(* Handler results                                                         *)
(***************************************************************************)
\* catch as a bug would have it: the error is thrown on to the caller
catchRethrow(completion) == completion

\* the catch block of every handler
catch(completion) ==
  IF completion.kind = "throw"
  THEN Return([success |-> FALSE, error |-> completion.message])
  ELSE completion

NotReady == [success |-> FALSE, error |-> <<"Storybook is not ready">>]

NotFound(storyId) ==
  [success |-> FALSE, error |-> <<"Story \"", storyId, "\" not found">>]

\* const { storyId } = args, as it is converted to a property key or a string
StoryIdOf(args) == IF Has(args, "storyId") THEN args.storyId ELSE "undefined"

DestructureError(prop) ==
  <<"Cannot destructure property '", prop, "' of 'args' as it is undefined.">>

\* kind: entry.kind || entry.title
WithKind(o, entry) ==
  IF Has(entry, "kind") THEN SetProp(o, "kind", entry.kind)
  ELSE CopyProp(o, "kind", entry, "title")

\* tags: entry.tags || []
WithTags(o, entry) ==
  SetProp(o, "tags", IF Has(entry, "tags") THEN entry.tags ELSE <<>>)

StoryOf(entry) ==
  CopyProp(
    WithTags(
      CopyProp(
        WithKind(
          CopyProp(CopyProp(CopyProp(EmptyObject, "id", entry, "id"),
                            "name", entry, "name"),
                   "title", entry, "title"),
          entry),
        "importPath", entry, "importPath"),
      entry),
    "type", entry, "type")

\* if (args.kind): a property that is missing or the empty string is falsy
Truthy(o, f) == Has(o, f) /\ o[f] # ""

KindMatches(o, kind) ==
  \/ Has(o, "kind") /\ o.kind = kind
  \/ Has(o, "title") /\ o.title = kind

\* stories.filter(s => s.kind === args.kind || s.title === args.kind); the
\* first definition stops at the first story that matches
filterByKindFirst(stories, kind) ==
  LET hits == {i \in DOMAIN stories : KindMatches(stories[i], kind)} IN
  IF hits = {} THEN <<>>
  ELSE <<stories[CHOOSE i \in hits : \A j \in hits : i <= j]>>
RECURSIVE filterByKind(_, _)
filterByKind(stories, kind) ==
  IF stories = <<>> THEN <<>>
  ELSE (IF KindMatches(Head(stories), kind) THEN <<Head(stories)>> ELSE <<>>)
       \o filterByKind(Tail(stories), kind)

(***************************************************************************)
(* listStories                                                             *)
(***************************************************************************)
listStoriesTry(svc, args) ==
  LET response == fetch(svc) IN
  IF response.kind = "throw" THEN response
  ELSE IF ~response.value.ok
  THEN Return([success |-> FALSE,
               error |-> <<"Storybook is not ready. Please wait...">>,
               hint |-> <<"Make sure Storybook is running at ", storybookUrl>>])
  ELSE
    LET data == json(response.value) IN
    IF data.kind = "throw" THEN data
    ELSE
      LET entries == ObjectValues(EntriesOrEmpty(data.value))
          all == [i \in DOMAIN entries |-> StoryOf(entries[i])]
          stories == IF Truthy(args, "kind") THEN filterByKind(all, args.kind)
                     ELSE all
      IN Return([success |-> TRUE, count |-> Len(stories), stories |-> stories])

listStories(svc, args) ==
  catch(listStoriesTry(svc, IF IsUndefined(args) THEN EmptyObject ELSE args))

(***************************************************************************)
(* getStoriesByKind                                                        *)
(***************************************************************************)
KindStoryOf(entry) ==
  CopyProp(
    WithKind(
      CopyProp(CopyProp(CopyProp(EmptyObject, "id", entry, "id"),
                        "name", entry, "name"),
               "title", entry, "title"),
      entry),
    "type", entry, "type")

\* entry.kind === kind || entry.title === kind, kind possibly undefined
EntryOfKind(entry, args) ==
  IF Has(args, "kind") THEN KindMatches(entry, args.kind)
  ELSE ~Has(entry, "kind") \/ ~Has(entry, "title")

\* Object.values(data.entries || {}).filter(entry => ...)
RECURSIVE filterEntries(_, _)
filterEntries(entries, args) ==
  IF entries = <<>> THEN <<>>
  ELSE (IF EntryOfKind(Head(entries), args) THEN <<Head(entries)>> ELSE <<>>)
       \o filterEntries(Tail(entries), args)

getStoriesByKindTry(svc, args) ==
  IF IsUndefined(args) THEN Throw(DestructureError("kind"))
  ELSE
  LET response == fetch(svc) IN
  IF response.kind = "throw" THEN response
  ELSE IF ~response.value.ok THEN Return(NotReady)
  ELSE
    LET data == json(response.value) IN
    IF data.kind = "throw" THEN data
    ELSE
      LET wanted == filterEntries(ObjectValues(EntriesOrEmpty(data.value)),
                                  args)
          stories == [i \in DOMAIN wanted |-> KindStoryOf(wanted[i])]
      IN Return(CopyProp([success |-> TRUE, count |-> Len(stories),
                          stories |-> stories],
                         "kind", args, "kind"))

getStoriesByKind(svc, args) == catch(getStoriesByKindTry(svc, args))

(***************************************************************************)
(* The project directory                                                   *)
(***************************************************************************)
\* importPath.replace(/^\.\//, '')
cleanPath(importPath) ==
  IF Len(importPath) > 1 /\ Head(importPath) = "." THEN Tail(importPath)
  ELSE importPath

\* path normalisation of path.join and path.resolve: "." is dropped and ".."
\* removes the segment before it
RECURSIVE Normalize(_, _)
Normalize(done, rest) ==
  IF rest = <<>> THEN done
  ELSE IF Head(rest) = "." THEN Normalize(done, Tail(rest))
  ELSE IF Head(rest) = ".." /\ done # <<>>
  THEN Normalize(SubSeq(done, 1, Len(done) - 1), Tail(rest))
  ELSE Normalize(Append(done, Head(rest)), Tail(rest))

pathJoin(a, b) == Normalize(<<>>, a \o b)
pathResolve(dir, specifier) == Normalize(<<>>, dir \o specifier)
dirname(p) == SubSeq(p, 1, Len(p) - 1)

\* importPath.endsWith('.mdx')
MdxNames == {"button.mdx"}
EndsWithMdx(importPath) == importPath[Len(importPath)] \in MdxNames

StoryFilePath == pathJoin(projectDir, cleanPath(StoryImportPath))
MdxPath == pathJoin(projectDir, cleanPath(MdxImportPath))
ComponentSpecifier == <<".", "button">>
ComponentBasePath == pathResolve(dirname(StoryFilePath), ComponentSpecifier)

extensions == <<"", ".ts", ".tsx", ".js", ".jsx", ".vue", ".svelte">>
Extensions == {extensions[i] : i \in DOMAIN extensions}

\* fs.existsSync(p)
existsSync(files, p) == p \in DOMAIN files

ReadErrorMessage == <<"EISDIR: illegal operation on a directory, read">>

\* fs.readFileSync(p, 'utf8'): the text, described by what the patterns of the
\* handlers and of the extractors find in it
readFileSync(files, p) ==
  IF existsSync(files, p) /\ files[p].readable THEN Return(files[p])
  ELSE Throw(ReadErrorMessage)

\* detectFramework(projectDir): the framework signature of the project
detectFramework(fsys) == fsys.framework

(***************************************************************************)
(* The extractors and the generator                                        *)
(***************************************************************************)
\* extractComponentDocs(componentFilePath) -> ComponentDoc | none
extractComponentDocs(files, p) ==
  IF existsSync(files, p) /\ files[p].readable /\ Has(files[p], "componentDoc")
  THEN files[p].componentDoc
  ELSE None

\* extractStoryExamples(storyFilePath) -> StoryFileDoc | none
extractStoryExamples(files, p) ==
  IF existsSync(files, p) /\ files[p].readable /\ Has(files[p], "examples")
  THEN files[p].examples
  ELSE None

\* args rendered as attributes, one part per argument
RECURSIVE AttributeParts(_, _, _)
AttributeParts(args, names, framework) ==
  IF names = {} THEN <<>>
  ELSE LET n == CHOOSE x \in names : TRUE IN
       (IF framework = "angular" THEN <<" [", n, "]=\"", args[n], "\"">>
        ELSE <<" ", n, "={", args[n], "}">>)
       \o AttributeParts(args, names \ {n}, framework)

\* generateUsageExample(componentIdentity, args, variantName, framework)
generateUsageExample(selector, story, name, framework) ==
  LET args == IF Has(story, "args") THEN story.args ELSE EmptyObject IN
  <<"<!-- ", name, " -->", "<", selector>>
  \o AttributeParts(args, DOMAIN args, framework)
  \o <<"></", selector, ">">>

\* The first candidate of the extension probe that exists, or none
RECURSIVE FirstExisting(_, _, _)
FirstExisting(files, base, i) ==
  IF i > Len(extensions) THEN None
  ELSE IF existsSync(files, Append(base, extensions[i]))
  THEN [path |-> Append(base, extensions[i])]
  ELSE FirstExisting(files, base, i + 1)

\* parseStoryFile(storyFilePath, storyId, projectDir): the component identity,
\* args and argTypes of one story, with the component's docs when available
parseStoryFile(files, p, storyId) ==
  IF ~(existsSync(files, p) /\ files[p].readable /\ Has(files[p], "component"))
  THEN None
  ELSE
    LET file == files[p]
        found == IF Has(file, "importSpec")
                 THEN FirstExisting(files, pathResolve(dirname(p), file.importSpec), 1)
                 ELSE None
        doc == IF IsNone(found) THEN None
               ELSE extractComponentDocs(files, found.path)
        base == [component |-> file.component]
        withArgs == IF Has(file, "examples") /\ file.examples.stories # <<>>
                    THEN CopyProp(base, "args", file.examples.stories[1][2], "args")
                    ELSE base
    IN IF IsNone(doc) THEN withArgs
       ELSE SetProp(withArgs, "componentDocs", doc)

(***************************************************************************)
(* getStory                                                                *)
(***************************************************************************)
\* story.args = parsed.args || {}; story.argTypes = parsed.argTypes || {}
WithParsed(story, parsed) ==
  IF IsNone(parsed) THEN story
  ELSE
    CopyProp(
      SetProp(
        SetProp(SetProp(story, "component", parsed.component),
                "args", IF Has(parsed, "args") THEN parsed.args ELSE EmptyObject),
        "argTypes",
        IF Has(parsed, "argTypes") THEN parsed.argTypes ELSE EmptyObject),
      "docs", parsed, "componentDocs")

getStoryTry(svc, fsys, args) ==
  IF IsUndefined(args) THEN Throw(DestructureError("storyId"))
  ELSE
  LET storyId == StoryIdOf(args)
      response == fetch(svc)
  IN
  IF response.kind = "throw" THEN response
  ELSE IF ~response.value.ok THEN Return(NotReady)
  ELSE
    LET data == json(response.value) IN
    IF data.kind = "throw" THEN data
    ELSE
      LET entry == EntryAt(data.value, storyId) IN
      IF IsUndefined(entry) THEN Return(NotFound(storyId))
      ELSE
        LET story == StoryOf(entry) IN
        IF Has(entry, "importPath")
        THEN
          LET storyFilePath == pathJoin(projectDir, cleanPath(entry.importPath))
              parsed == parseStoryFile(fsys.files, storyFilePath, storyId)
          IN Return([success |-> TRUE, story |-> WithParsed(story, parsed)])
        ELSE Return([success |-> TRUE, story |-> story])

getStory(svc, fsys, args) == catch(getStoryTry(svc, fsys, args))

(***************************************************************************)
(* getStoryDocs                                                            *)
(***************************************************************************)
\* probe as a bug would have it: the break sits inside if (componentDocs), so
\* the loop goes on to later candidates when extraction yields none
RECURSIVE probeUntilRecognised(_, _, _)
probeUntilRecognised(files, componentFilePath, i) ==
  IF i > Len(extensions) THEN [calls |-> <<>>, doc |-> None]
  ELSE
    LET fullPath == Append(componentFilePath, extensions[i])
        later == probeUntilRecognised(files, componentFilePath, i + 1)
    IN
    IF existsSync(files, fullPath)
    THEN IF IsNone(extractComponentDocs(files, fullPath))
         THEN [calls |-> <<fullPath>> \o later.calls, doc |-> later.doc]
         ELSE [calls |-> <<fullPath>>,
               doc |-> extractComponentDocs(files, fullPath)]
    ELSE later

\* The extension probe: for (const ext of extensions) { ... break; }
\* calls: the files handed to extractComponentDocs, in order;
\* doc: the component doc the loop leaves behind, or none
RECURSIVE probe(_, _, _)
probe(files, componentFilePath, i) ==
  IF i > Len(extensions) THEN [calls |-> <<>>, doc |-> None]
  ELSE
    LET fullPath == Append(componentFilePath, extensions[i]) IN
    IF existsSync(files, fullPath)
    THEN [calls |-> <<fullPath>>, doc |-> extractComponentDocs(files, fullPath)]
    ELSE probe(files, componentFilePath, i + 1)

\* WithComponentDocs as a bug would have it: the description is read from
\* componentDocs.componentDescription, a property the ComponentDoc never has
WithComponentDocsMisnamed(docs, componentDocs) ==
  IF IsNone(componentDocs) THEN docs
  ELSE
    CopyProp(
      CopyProp(
        CopyProp(
          CopyProp(CopyProp(docs, "selector", componentDocs, "selector"),
                   "template", componentDocs, "template"),
          "componentCode", componentDocs, "componentCode"),
        "properties", componentDocs, "properties"),
      "componentDescription", componentDocs, "componentDescription")

\* if (componentDocs) { docs.selector = componentDocs.selector; ... }
WithComponentDocs(docs, componentDocs) ==
  IF IsNone(componentDocs) THEN docs
  ELSE
    CopyProp(
      CopyProp(
        CopyProp(
          CopyProp(CopyProp(docs, "selector", componentDocs, "selector"),
                   "template", componentDocs, "template"),
          "componentCode", componentDocs, "componentCode"),
        "properties", componentDocs, "properties"),
      "componentDescription", componentDocs, "description")

\* UsageExamples as a bug would have it: a file without variants gets an
\* example for a default variant
UsageExamplesWithDefault(docs, stories, framework) ==
  IF stories = <<>>
  THEN << <<"Default",
            generateUsageExample(docs.selector, EmptyObject, "Default",
                                 framework)>> >>
  ELSE [i \in DOMAIN stories |->
          <<stories[i][1],
            generateUsageExample(docs.selector, stories[i][2], stories[i][1],
                                 framework)>>]

\* docs.usageExamples[name] = generateUsageExample(docs.selector, story.args, ...)
UsageExamples(docs, stories, framework) ==
  [i \in DOMAIN stories |->
     <<stories[i][1],
       generateUsageExample(docs.selector, stories[i][2], stories[i][1],
                            framework)>>]

\* WithUsageExamples as a bug would have it: the docs.selector guard is
\* missing, and the examples are generated around an undefined selector
WithUsageExamplesUnguarded(docs, storyExamples, framework) ==
  IF Has(storyExamples, "stories")
  THEN SetProp(docs, "usageExamples",
               UsageExamples(IF Has(docs, "selector") THEN docs
                             ELSE [selector |-> "undefined"],
                             storyExamples.stories, framework))
  ELSE docs

\* if (docs.selector && storyExamples.stories) { docs.usageExamples = ... }
WithUsageExamples(docs, storyExamples, framework) ==
  IF Has(docs, "selector") /\ Has(storyExamples, "stories")
  THEN SetProp(docs, "usageExamples",
               UsageExamples(docs, storyExamples.stories, framework))
  ELSE docs

\* WithStoryExamples as a bug would have it: the story examples are attached
\* inside the branch that found the component docs
WithStoryExamplesIfComponent(docs, storyExamples, framework) ==
  IF IsNone(storyExamples) \/ ~Has(docs, "componentCode") THEN docs
  ELSE
    WithUsageExamples(
      CopyProp(
        CopyProp(CopyProp(docs, "imports", storyExamples, "imports"),
                 "metaCode", storyExamples, "meta"),
        "storyExamples", storyExamples, "stories"),
      storyExamples, framework)

\* if (storyExamples) { docs.imports = ...; docs.metaCode = ...; ... }
WithStoryExamples(docs, storyExamples, framework) ==
  IF IsNone(storyExamples) THEN docs
  ELSE
    WithUsageExamples(
      CopyProp(
        CopyProp(CopyProp(docs, "imports", storyExamples, "imports"),
                 "metaCode", storyExamples, "meta"),
        "storyExamples", storyExamples, "stories"),
      storyExamples, framework)

\* The component part of the pipeline on the text of the story file
ComponentProbe(files, storyFilePath, content) ==
  IF Has(content, "component") /\ Has(content, "importSpec")
  THEN probe(files, pathResolve(dirname(storyFilePath), content.importSpec), 1)
  ELSE [calls |-> <<>>, doc |-> None]

\* The branch for a story file (importPath not ending in .mdx)
StoryFileDocs(docs, fsys, storyFilePath, framework) ==
  IF ~existsSync(fsys.files, storyFilePath)
  THEN [completion |-> Return([success |-> TRUE, docs |-> docs]),
        extracted |-> <<>>]
  ELSE
    LET content == readFileSync(fsys.files, storyFilePath) IN
    IF content.kind = "throw"
    THEN [completion |-> content, extracted |-> <<>>]
    ELSE
      LET probed == ComponentProbe(fsys.files, storyFilePath, content.value)
          named == CopyProp(docs, "component", content.value, "component")
          withComponent == WithComponentDocs(named, probed.doc)
          storyExamples == extractStoryExamples(fsys.files, storyFilePath)
      IN [completion |->
            Return([success |-> TRUE,
                    docs |-> WithStoryExamples(withComponent, storyExamples,
                                               framework)]),
          extracted |-> probed.calls]

\* The branch for an .mdx file
MdxDocs(docs, fsys, mdxPath) ==
  IF ~existsSync(fsys.files, mdxPath)
  THEN Return([success |-> TRUE, docs |-> docs])
  ELSE
    LET content == readFileSync(fsys.files, mdxPath) IN
    IF content.kind = "throw" THEN content
    ELSE Return([success |-> TRUE,
                 docs |-> SetProp(docs, "mdxContent", content.value.text)])

\* createToolHandlers(config): `const framework = detectFramework(projectDir)`
\* runs once, when the handlers are created
createToolHandlers(fsys) == [framework |-> detectFramework(fsys)]

\* The handlers read the framework of their closure, whatever the project
\* directory has become since
handlersFrameworkRedetected(handlers, fsys) == detectFramework(fsys)
handlersFramework(handlers, fsys) == handlers.framework

getStoryDocsTry(svc, fsys, handlers, args) ==
  IF IsUndefined(args)
  THEN [completion |-> Throw(DestructureError("storyId")), extracted |-> <<>>]
  ELSE
  LET storyId == StoryIdOf(args)
      framework == handlersFramework(handlers, fsys)
      response == fetch(svc)
  IN
  IF response.kind = "throw" THEN [completion |-> response, extracted |-> <<>>]
  ELSE IF ~response.value.ok
  THEN [completion |-> Return(NotReady), extracted |-> <<>>]
  ELSE
    LET data == json(response.value) IN
    IF data.kind = "throw" THEN [completion |-> data, extracted |-> <<>>]
    ELSE
      LET entry == EntryAt(data.value, storyId) IN
      IF IsUndefined(entry)
      THEN [completion |-> Return(NotFound(storyId)), extracted |-> <<>>]
      ELSE
        LET docs ==
              SetProp(
                CopyProp(
                  CopyProp(CopyProp(CopyProp(EmptyObject, "storyId", args, "storyId"),
                                    "title", entry, "title"),
                           "name", entry, "name"),
                  "type", entry, "type"),
                "framework", framework)
        IN
        IF Has(entry, "importPath") /\ ~EndsWithMdx(entry.importPath)
        THEN StoryFileDocs(docs, fsys,
                           pathJoin(projectDir, cleanPath(entry.importPath)),
                           framework)
        ELSE IF Has(entry, "importPath")
        THEN [completion |->
                MdxDocs(docs, fsys,
                        pathJoin(projectDir, cleanPath(entry.importPath))),
              extracted |-> <<>>]
        ELSE [completion |-> Return([success |-> TRUE, docs |-> docs]),
              extracted |-> <<>>]

getStoryDocs(svc, fsys, handlers, args) ==
  LET run == getStoryDocsTry(svc, fsys, handlers, args) IN
  [completion |-> catch(run.completion), extracted |-> run.extracted]

(***************************************************************************)
(* Project directories                                                     *)
(***************************************************************************)
VariantPool ==
  << <<"Primary", [args |-> [label |-> "Click me"], code |-> "Primary: Story"]>>,
     <<"Secondary", [code |-> "Secondary: Story"]>>,
     <<"Large", [args |-> [size |-> "large"], code |-> "Large: Story"]>> >>

\* What extractStoryExamples recovers from a story file declaring n variants
StoryFileDoc(n) ==
  [imports |-> <<"import { Button } from './button';">>,
   meta |-> "const meta = { component: Button }",
   stories |-> SubSeq(VariantPool, 1, n)]

\* Story files: with or without a `component:` declaration, an import of the
\* component and content extractStoryExamples recognises
StoryFiles ==
  LET plain == {[readable |-> TRUE]}
      declared == {SetProp(f, "component", "Button") : f \in plain}
      imported == {SetProp(f, "importSpec", ComponentSpecifier) : f \in declared}
      WithExamples(fileSet) ==
        fileSet \cup
        {SetProp(f, "examples", StoryFileDoc(n)) :
           f \in fileSet, n \in 0..MaxVariants}
  IN [bare |-> WithExamples(plain \cup declared),
      importing |-> WithExamples(imported)]

Unreadable == [readable |-> FALSE]

AngularDoc ==
  [selector |-> "app-button", template |-> "<button>{{ label }}</button>",
   componentCode |-> "export class ButtonComponent", properties |-> <<"label">>,
   description |-> "Primary UI component"]
ReactDoc ==
  [componentCode |-> "export const Button = (props) =>",
   properties |-> <<"label">>, description |-> "Primary UI component"]
SelectorOnlyDoc == [selector |-> "app-button"]

\* Component files: unrecognised content, or content extractComponentDocs
\* recovers a ComponentDoc from
ComponentFiles ==
  {[readable |-> TRUE]} \cup
  {[readable |-> TRUE, componentDoc |-> d] :
     d \in {AngularDoc, ReactDoc, SelectorOnlyDoc}}

CandidatePath(ext) == Append(ComponentBasePath, ext)

\* The component candidates present in the directory of the story file
CandidateFiles ==
  UNION { {[p \in {CandidatePath(e) : e \in S} |-> f[p[Len(p)]]] :
             f \in [S -> ComponentFiles]} :
          S \in {T \in SUBSET Extensions : Cardinality(T) <= MaxCandidates} }

MdxFiles ==
  {EmptyObject, MdxPath :> [readable |-> TRUE, text |-> "# Button"],
   MdxPath :> Unreadable}

Frameworks == {"angular", "react"}

FileSets ==
  {EmptyObject} \cup {StoryFilePath :> Unreadable}
  \cup {StoryFilePath :> f : f \in StoryFiles.bare}
  \cup {(StoryFilePath :> f) @@ c : f \in StoryFiles.importing, c \in CandidateFiles}

FileSystems ==
  {[framework |-> fw, files |-> story @@ mdx] :
     fw \in Frameworks, story \in FileSets, mdx \in MdxFiles}

\* A few project directories for the runs that vary the inventory
CoreFileSystems ==
  { [framework |-> "angular", files |-> EmptyObject],
    [framework |-> "angular",
     files |-> (StoryFilePath :> Unreadable) @@ (MdxPath :> Unreadable)],
    [framework |-> "angular", files |-> (StoryFilePath :> [readable |-> TRUE])],
    [framework |-> "angular",
     files |-> (StoryFilePath :>
                  [readable |-> TRUE, component |-> "Button",
                   importSpec |-> ComponentSpecifier,
                   examples |-> StoryFileDoc(1)])
               @@ (CandidatePath(".ts") :>
                     [readable |-> TRUE, componentDoc |-> AngularDoc])
               @@ (MdxPath :> [readable |-> TRUE, text |-> "# Button"])] }

\* Inventories for the runs that vary the project directory
DocsServices ==
  { [status |-> "ok", data |-> [v |-> 5, entries |-> m]] :
      m \in {i \in Inventories :
               /\ Keys(i) = {"button--primary", "button--docs"}
               /\ i[1][1] = "button--primary"
               /\ Has(i[1][2], "importPath")} }

(***************************************************************************)
(* Arguments                                                               *)
(***************************************************************************)
KindArgs == {"Example/Button", "Example/Card", "Card", "Forms"}
StoryIdArgs == StoryKeys \cup {"non-existent-story", "constructor"}

ListArgs ==
  {Undefined, EmptyObject, [kind |-> ""]} \cup {[kind |-> k] : k \in KindArgs}
StoryArgs == {Undefined, EmptyObject} \cup {[storyId |-> id] : id \in StoryIdArgs}

(***************************************************************************)
(* MCP protocol handler                                                    *)
(***************************************************************************)
serverInfo ==
  [name |-> "storybook-mcp-api", version |-> "1.1.0",
   protocolVersion |-> "2024-11-05"]

tools ==
  << [name |-> "list_stories",
      description |-> "List all available Storybook stories",
      inputSchema |->
        [type |-> "object",
         properties |->
           [kind |-> [type |-> "string",
                      description |-> "Filter stories by kind/category"]]]],
     [name |-> "get_story",
      description |-> "Get detailed information about a specific story",
      inputSchema |->
        [type |-> "object",
         properties |->
           [storyId |->
              [type |-> "string",
               description |-> "The story ID (e.g., example-button--primary)"]],
         required |-> <<"storyId">>]],
     [name |-> "get_story_docs",
      description |-> "Get full documentation for a story including code examples",
      inputSchema |->
        [type |-> "object",
         properties |->
           [storyId |->
              [type |-> "string",
               description |-> "The story ID (e.g., example-button--docs)"]],
         required |-> <<"storyId">>]] >>

resources ==
  << [uri |-> "storybook://stories", name |-> "Storybook Stories",
      description |-> "All available Storybook stories",
      mimeType |-> "application/json"] >>

\* createMCPHandler(config): its own tool handlers and its own detection
createMCPHandler(fsys) ==
  [handlers |-> createToolHandlers(fsys), framework |-> detectFramework(fsys)]

\* JSON-RPC error codes
MethodNotFound == -32601
InvalidParams == -32602
InternalError == -32603

\* JSON.stringify(value, null, 2): the text of a value, which is not the value
Stringify(value) == [json |-> value, indent |-> 2]


\* o.f, where f may be undefined
Prop(o, f) == IF Has(o, f) THEN o[f] ELSE Undefined

\* o.f as a switch operand or inside a template literal, where no string
\* of the model reads 'undefined'
PropString(o, f) == IF Has(o, f) THEN o[f] ELSE "undefined"

DestructureParamsError(prop) ==
  <<"Cannot destructure property '", prop, "' of 'params' as it is undefined.">>

\* { jsonrpc: '2.0', id, result } and { jsonrpc: '2.0', id, error }
JsonRpcResult(request, result) ==
  SetProp(CopyProp([jsonrpc |-> "2.0"], "id", request, "id"), "result", result)

\* the first definition builds the error without the id of the request
JsonRpcErrorWithoutId(request, code, message) ==
  [jsonrpc |-> "2.0", error |-> [code |-> code, message |-> message]]
JsonRpcError(request, code, message) ==
  SetProp(CopyProp([jsonrpc |-> "2.0"], "id", request, "id"), "error",
          [code |-> code, message |-> message])

\* The handler a tool name is dispatched to by `switch (name)`; the second
\* definition is the dispatch of the code, the first one also serves a tool
\* that tools/list does not advertise
toolHandlerWithKind(name) ==
  CASE name = "list_stories" -> "listStories"
    [] name = "get_story" -> "getStory"
    [] name = "get_story_docs" -> "getStoryDocs"
    [] name = "get_stories_by_kind" -> "getStoriesByKind"
    [] OTHER -> "none"
toolHandler(name) ==
  CASE name = "list_stories" -> "listStories"
    [] name = "get_story" -> "getStory"
    [] name = "get_story_docs" -> "getStoryDocs"
    [] OTHER -> "none"

\* await handlers[op](args): the invocation with what it was given and how
\* it completed
invoke(op, args, svc, fsys, handlers) ==
  [op |-> op, args |-> args,
   completion |->
     CASE op = "listStories" -> listStories(svc, args)
       [] op = "getStory" -> getStory(svc, fsys, args)
       [] op = "getStoryDocs" -> getStoryDocs(svc, fsys, handlers, args).completion
       [] OTHER -> getStoriesByKind(svc, args)]

\* The result of a tool as the content of a tools/call response; the first
\* definition reports a failed result as a JSON-RPC error instead
toolContentOrError(request, result) ==
  IF result.success
  THEN JsonRpcResult(request,
                     [content |-> <<[type |-> "text", text |-> Stringify(result)]>>])
  ELSE JsonRpcError(request, InternalError, result.error)
toolContent(request, result) ==
  JsonRpcResult(request,
                [content |-> <<[type |-> "text", text |-> Stringify(result)]>>])

\* case 'tools/call'
toolsCall(request, svc, fsys, mcp) ==
  IF ~Has(request, "params")
  THEN [completion |-> Throw(DestructureParamsError("name")), invoked |-> <<>>]
  ELSE
    LET name == PropString(request.params, "name")
        args == Prop(request.params, "arguments")
        op == toolHandler(name)
    IN
    IF op = "none"
    THEN [completion |->
            Return(JsonRpcError(request, MethodNotFound,
                                <<"Unknown tool: ", name>>)),
          invoked |-> <<>>]
    ELSE
      LET call == invoke(op,
                         IF op = "listStories" /\ IsUndefined(args)
                         THEN EmptyObject ELSE args,
                         svc, fsys, mcp.handlers)
      IN [completion |-> Return(toolContent(request, call.completion.value)),
          invoked |-> <<call>>]

\* case 'resources/read'
resourcesRead(request, svc, fsys, mcp) ==
  IF ~Has(request, "params")
  THEN [completion |-> Throw(DestructureParamsError("uri")), invoked |-> <<>>]
  ELSE
    LET uri == PropString(request.params, "uri") IN
    IF uri = "storybook://stories"
    THEN
      LET call == invoke("listStories", EmptyObject, svc, fsys, mcp.handlers) IN
      [completion |->
         Return(JsonRpcResult(request,
                  [contents |->
                     <<[uri |-> uri, mimeType |-> "application/json",
                        text |-> Stringify(call.completion.value)]>>])),
       invoked |-> <<call>>]
    ELSE [completion |->
            Return(JsonRpcError(request, InvalidParams,
                                <<"Unknown resource: ", uri>>)),
          invoked |-> <<>>]

\* The default branch of `switch (method)`; the first definition answers an
\* unsupported method as it answers ping
methodNotFoundIgnored(request, method) == JsonRpcResult(request, EmptyObject)
methodNotFound(request, method) ==
  JsonRpcError(request, MethodNotFound, <<"Method not found: ", method>>)

\* handleRequest(request): the response, or the exception it throws, and the
\* handlers it invoked
handleRequest(request, svc, fsys, mcp) ==
  LET method == PropString(request, "method")
      Answer(response) == [completion |-> Return(response), invoked |-> <<>>]
  IN
  CASE method = "initialize" ->
         Answer(JsonRpcResult(request,
                  [protocolVersion |-> serverInfo.protocolVersion,
                   capabilities |->
                     [tools |-> [listChanged |-> FALSE],
                      resources |-> [subscribe |-> FALSE, listChanged |-> FALSE]],
                   serverInfo |-> [name |-> serverInfo.name,
                                   version |-> serverInfo.version]]))
    [] method = "initialized" -> Answer(JsonRpcResult(request, EmptyObject))
    [] method = "tools/list" -> Answer(JsonRpcResult(request, [tools |-> tools]))
    [] method = "tools/call" -> toolsCall(request, svc, fsys, mcp)
    [] method = "resources/list" ->
         Answer(JsonRpcResult(request, [resources |-> resources]))
    [] method = "resources/read" -> resourcesRead(request, svc, fsys, mcp)
    [] method = "ping" -> Answer(JsonRpcResult(request, EmptyObject))
    [] OTHER -> Answer(methodNotFound(request, method))

(***************************************************************************)
(* Express application                                                     *)
(***************************************************************************)
\* createApp(config): one detection of its own, the tool handlers of the REST
\* routes and the MCP handler, all made in the one synchronous call
createApp(fsys) ==
  [framework |-> detectFramework(fsys),
   handlers |-> createToolHandlers(fsys),
   mcpHandler |-> createMCPHandler(fsys)]

\* The handlers read the project directory (existsSync, readFileSync) and
\* write nothing; the first definition keeps the documentation it built in a
\* file of the project
projectAfterCaching(fsys, invoked) ==
  IF invoked = <<>> THEN fsys
  ELSE [fsys EXCEPT !.files =
          (<<"project", ".cache", "docs.json">> :> [readable |-> TRUE]) @@ @]
projectAfter(fsys, invoked) == fsys

\* res.json(body) answers 200 unless res.status(code) was called
Reply(status, body, invoked) ==
  [status |-> status, body |-> body, invoked |-> invoked]

\* app.post('/mcp'); the first definition serves nothing but initialize
\* until an initialize request was handled
postMcpAfterInitialize(request, svc, fsys, application) ==
  LET run == handleRequest(request, svc, fsys, application.mcpHandler) IN
  IF ~initialized /\ PropString(request, "method") # "initialize"
  THEN Reply(200, JsonRpcError(request, -32002, <<"Server not initialized">>), <<>>)
  ELSE IF run.completion.kind = "return"
  THEN Reply(200, run.completion.value, run.invoked)
  ELSE Reply(500,
             JsonRpcError(request, InternalError, run.completion.message),
             run.invoked)
postMcp(request, svc, fsys, application) ==
  LET run == handleRequest(request, svc, fsys, application.mcpHandler) IN
  IF run.completion.kind = "return"
  THEN Reply(200, run.completion.value, run.invoked)
  ELSE Reply(500,
             JsonRpcError(request, InternalError, run.completion.message),
             run.invoked)

\* app.get('/mcp')
getMcp(application) ==
  Reply(200,
        [name |-> serverInfo.name, version |-> serverInfo.version,
         protocolVersion |-> serverInfo.protocolVersion,
         description |-> "Storybook MCP API Server - Streamable HTTP Transport",
         framework |-> application.mcpHandler.framework,
         transport |-> "streamable-http", endpoint |-> "POST /mcp",
         tools |-> [i \in DOMAIN tools |->
                      [name |-> tools[i].name,
                       description |-> tools[i].description]],
         resources |-> [i \in DOMAIN resources |->
                          [uri |-> resources[i].uri, name |-> resources[i].name]]],
        <<>>)

\* The endpoints object of GET /api: the keys of its rest and mcp lists, in
\* the order of the literal
endpoints ==
  [rest |-> <<"GET /api", "GET /api/stories", "GET /api/stories/:storyId",
              "GET /api/docs/:storyId", "GET /api/stories/kind/:kind">>,
   mcp |-> <<"POST /mcp", "GET /mcp", "GET /sse", "POST /sse/messages">>]

\* app.get('/api'): the documentation of the routes (the descriptions of
\* the endpoints and the examples, which are literals, are left out); the
\* first definition answers 503 until the inventory is served
getApiWhenReady(application) ==
  IF service.status = "ok"
  THEN Reply(200,
             [success |-> TRUE, name |-> "Storybook MCP API", version |-> "1.1.0",
              storybookVersion |-> "unknown", framework |-> application.framework,
              endpoints |-> endpoints],
             <<>>)
  ELSE Reply(503, [success |-> FALSE, error |-> <<"Storybook is not ready">>], <<>>)
getApi(application) ==
  Reply(200,
        [success |-> TRUE, name |-> "Storybook MCP API", version |-> "1.1.0",
         storybookVersion |-> "unknown", framework |-> application.framework,
         endpoints |-> endpoints],
        <<>>)

\* the parts of the error messages of the model that hold 'not found'
NotFoundParts == {"\" not found"}

\* result.error?.includes('not found')
includesNotFound(result) ==
  Has(result, "error")
  /\ \E i \in DOMAIN result.error : result.error[i] \in NotFoundParts

\* app.get('/api/stories/kind/:kind')
getApiStoriesByKind(kind, svc, fsys, application) ==
  LET call == invoke("getStoriesByKind", [kind |-> kind], svc, fsys,
                     application.handlers)
      result == call.completion.value
  IN Reply(IF result.success THEN 200 ELSE 503, result, <<call>>)

\* app.get('/api/docs/:storyId')
getApiDocs(storyId, svc, fsys, application) ==
  LET call == invoke("getStoryDocs", [storyId |-> storyId], svc, fsys,
                     application.handlers)
      result == call.completion.value
  IN Reply(IF result.success THEN 200
           ELSE IF includesNotFound(result) THEN 404 ELSE 503,
           result, <<call>>)

\* app.get('/api/stories'): req.query is the arguments of listStories; the
\* first definition lists the whole inventory whatever the query
getApiStoriesUnfiltered(query, svc, fsys, application) ==
  LET call == invoke("listStories", EmptyObject, svc, fsys, application.handlers)
      result == call.completion.value
  IN Reply(IF result.success THEN 200 ELSE 503, result, <<call>>)
getApiStories(query, svc, fsys, application) ==
  LET call == invoke("listStories", query, svc, fsys, application.handlers)
      result == call.completion.value
  IN Reply(IF result.success THEN 200 ELSE 503, result, <<call>>)

\* app.get('/api/stories/:storyId'); the first definition does not look
\* for 'not found' in the error and answers every failure with 503
getApiStoryUnavailable(storyId, svc, fsys, application) ==
  LET call == invoke("getStory", [storyId |-> storyId], svc, fsys,
                     application.handlers)
      result == call.completion.value
  IN Reply(IF result.success THEN 200 ELSE 503, result, <<call>>)
getApiStory(storyId, svc, fsys, application) ==
  LET call == invoke("getStory", [storyId |-> storyId], svc, fsys,
                     application.handlers)
      result == call.completion.value
  IN Reply(IF result.success THEN 200
           ELSE IF includesNotFound(result) THEN 404 ELSE 503,
           result, <<call>>)

\* The routes createApp registers, in registration order
Routes ==
  <<[method |-> "POST", path |-> "/mcp"],
    [method |-> "GET", path |-> "/mcp"],
    [method |-> "GET", path |-> "/sse"],
    [method |-> "POST", path |-> "/sse/messages"],
    [method |-> "GET", path |-> "/api"],
    [method |-> "GET", path |-> "/api/stories"],
    [method |-> "GET", path |-> "/api/stories/:storyId"],
    [method |-> "GET", path |-> "/api/docs/:storyId"],
    [method |-> "GET", path |-> "/api/stories/kind/:kind"]>>

registered(method, path) ==
  \E i \in DOMAIN Routes : Routes[i] = [method |-> method, path |-> path]

\* A request that no route of the application matches: the application
\* passes it on, no callback of createApp runs, and Express answers 404
noRoute(method, path) == Reply(404, <<"Cannot ", method, " ", path>>, <<>>)

\* POST /sse
postSse(query, request) ==
  IF registered("POST", "/sse")
  THEN Reply(202, [status |-> "accepted"], <<>>)
  ELSE noRoute("POST", "/sse")

(***************************************************************************)
(* Specification                                                           *)
(***************************************************************************)
NoCall == [op |-> "none"]
NoExchange == [route |-> "none"]

\* Nothing was requested over HTTP and no SSE client is connected
NoTransport ==
  /\ http = NoExchange
  /\ initialized = FALSE
  /\ sessions = <<>>
  /\ streams = <<>>
  /\ timers = {}
  /\ inflight = <<>>

\* No static build was made
NoStaticBuild ==
  /\ staticDir = EmptyObject
  /\ clock = 0

\* The record of one invocation of a handler
Invocation(op, args, run) ==
  [op |-> op, args |-> args, inventory |-> service, project |-> fs,
   afterChange |-> (changed /\ lastCall.op # "none"),
   completion |-> run.completion, extracted |-> run.extracted]

Init ==
  /\ service \in Services
  /\ fs \in CoreFileSystems
  /\ lastCall = NoCall
  /\ changed = FALSE
  /\ app = createApp(fs)
  /\ NoTransport
  /\ NoStaticBuild

ListStories ==
  /\ \E args \in ListArgs :
       lastCall' = Invocation("listStories", args,
                              [completion |-> listStories(service, args),
                               extracted |-> <<>>])
  /\ changed' = FALSE
  /\ UNCHANGED <<service, fs, app, transportVars, staticDir, clock>>

GetStory ==
  /\ \E args \in StoryArgs :
       lastCall' = Invocation("getStory", args,
                              [completion |-> getStory(service, fs, args),
                               extracted |-> <<>>])
  /\ changed' = FALSE
  /\ UNCHANGED <<service, fs, app, transportVars, staticDir, clock>>

GetStoryDocs ==
  /\ \E args \in StoryArgs :
       lastCall' = Invocation("getStoryDocs", args,
                              getStoryDocs(service, fs, app.handlers, args))
  /\ changed' = FALSE
  /\ UNCHANGED <<service, fs, app, transportVars, staticDir, clock>>

GetStoriesByKind ==
  /\ \E args \in ListArgs :
       lastCall' = Invocation("getStoriesByKind", args,
                              [completion |-> getStoriesByKind(service, args),
                               extracted |-> <<>>])
  /\ changed' = FALSE
  /\ UNCHANGED <<service, fs, app, transportVars, staticDir, clock>>

\* The inventory is an external service: entries come and go, and the service
\* goes down and comes back, between any two calls
InventoryChanges ==
  /\ \E s \in Services \ {service} : service' = s
  /\ changed' = TRUE
  /\ UNCHANGED <<fs, lastCall, app, transportVars, staticDir, clock>>

Next ==
  \/ ListStories
  \/ GetStory
  \/ GetStoryDocs
  \/ GetStoriesByKind
  \/ InventoryChanges

Spec == Init /\ [][Next]_vars

\* The documentation pipeline over every project directory
InitDocs ==
  /\ service \in DocsServices
  /\ fs \in FileSystems
  /\ lastCall = NoCall
  /\ changed = FALSE
  /\ app = createApp(fs)
  /\ NoTransport
  /\ NoStaticBuild

NextDocs == GetStoryDocs

SpecDocs == InitDocs /\ [][NextDocs]_vars

(***************************************************************************)
(* The application over HTTP: Streamable HTTP transport and REST routes    *)
(***************************************************************************)
RequestIds == {1, 2}

ToolNameArgs ==
  {"list_stories", "get_story", "get_story_docs", "get_stories_by_kind",
   "delete_story"}

\* the `arguments` a client sends with a tool name
ToolArguments(name) ==
  CASE name = "list_stories" -> {EmptyObject, [kind |-> "Example/Button"]}
    [] name \in {"get_story", "get_story_docs"} ->
         {[storyId |-> "button--primary"], [storyId |-> "non-existent-story"]}
    [] OTHER -> {EmptyObject}

ToolParams ==
  {EmptyObject}
  \cup {[name |-> n] : n \in ToolNameArgs}
  \cup UNION {{[name |-> n, arguments |-> a] : a \in ToolArguments(n)} :
                n \in ToolNameArgs}

ResourceParams ==
  {EmptyObject, [uri |-> "storybook://stories"],
   [uri |-> "storybook://components"]}

\* JSON-RPC requests without their id
McpCalls ==
  {EmptyObject}
  \cup {[method |-> m] :
          m \in {"initialize", "initialized", "tools/list", "tools/call",
                 "resources/list", "resources/read", "ping", "prompts/list"}}
  \cup {[method |-> "initialize", params |-> [protocolVersion |-> "2024-11-05"]]}
  \cup {[method |-> "tools/call", params |-> p] : p \in ToolParams}
  \cup {[method |-> "resources/read", params |-> p] : p \in ResourceParams}

\* req.body of a POST: a request, or a notification that has no id
McpRequests == McpCalls \cup {SetProp(c, "id", i) : c \in McpCalls, i \in RequestIds}

\* The inventories and the project directories the application is run over
McpServices ==
  {[status |-> "unreachable"], [status |-> "starting"],
   [status |-> "ok", data |-> [v |-> 5]]} \cup DocsServices

McpFileSystems ==
  {[framework |-> fw, files |-> f.files] :
     fw \in Frameworks,
     f \in {c \in CoreFileSystems : CandidatePath(".ts") \in DOMAIN c.files}}

\* The record of one HTTP exchange
Exchange(route, request, reply) ==
  [route |-> route, request |-> request, inventory |-> service, project |-> fs,
   initializedBefore |-> initialized,
   status |-> reply.status, body |-> reply.body, invoked |-> reply.invoked]

InitMcp ==
  /\ service \in McpServices
  /\ fs \in McpFileSystems
  /\ lastCall = NoCall
  /\ changed = FALSE
  /\ app = createApp(fs)
  /\ NoTransport
  /\ NoStaticBuild

PostMcp ==
  /\ \E request \in McpRequests :
       \E reply \in {postMcp(request, service, fs, app)} :
       /\ http' = Exchange("POST /mcp", request, reply)
       /\ fs' = projectAfter(fs, reply.invoked)
       /\ initialized' =
            (initialized \/ PropString(request, "method") = "initialize")
  /\ UNCHANGED <<service, handlerVars, app, sessions, streams, timers,
                 inflight, staticDir, clock>>

GetMcp ==
  /\ http' = Exchange("GET /mcp", EmptyObject, getMcp(app))
  /\ UNCHANGED <<service, fs, handlerVars, app, initialized, sessions, streams,
                 timers, inflight, staticDir, clock>>

GetApi ==
  /\ http' = Exchange("GET /api", EmptyObject, getApi(app))
  /\ UNCHANGED <<service, fs, handlerVars, app, initialized, sessions, streams,
                 timers, inflight, staticDir, clock>>

GetApiDocs ==
  /\ \E storyId \in {"button--primary", "non-existent-story"} :
       LET reply == getApiDocs(storyId, service, fs, app) IN
       /\ http' = Exchange("GET /api/docs/:storyId", [storyId |-> storyId], reply)
       /\ fs' = projectAfter(fs, reply.invoked)
  /\ UNCHANGED <<service, handlerVars, app, initialized, sessions, streams,
                 timers, inflight, staticDir, clock>>

GetApiStoriesByKind ==
  /\ \E kind \in KindArgs :
       LET reply == getApiStoriesByKind(kind, service, fs, app) IN
       /\ http' = Exchange("GET /api/stories/kind/:kind", [kind |-> kind], reply)
       /\ fs' = projectAfter(fs, reply.invoked)
  /\ UNCHANGED <<service, handlerVars, app, initialized, sessions, streams,
                 timers, inflight, staticDir, clock>>

\* The inventory service goes down, comes back, gains and loses entries
InventoryServiceChanges ==
  /\ \E s \in McpServices \ {service} : service' = s
  /\ changed' = TRUE
  /\ UNCHANGED <<fs, lastCall, app, transportVars, staticDir, clock>>

\* The project directory is edited while the server runs: files and the
\* manifest the framework is detected from
ProjectChanges ==
  /\ \E f \in McpFileSystems \ {fs} : fs' = f
  /\ UNCHANGED <<service, handlerVars, app, transportVars, staticDir, clock>>

NextMcp ==
  \/ PostMcp
  \/ GetMcp
  \/ GetApi
  \/ GetApiDocs
  \/ InventoryServiceChanges
  \/ ProjectChanges

SpecMcp == InitMcp /\ [][NextMcp]_vars

(***************************************************************************)
(* Requests in flight: a handler is suspended at `await fetch(...)` and at *)
(* `await response.json()`, and other requests are served meanwhile        *)
(***************************************************************************)
MaxInflight == 2    \* requests suspended at an await at once

\* Requests that reach a handler: the same handler with different arguments
\* and different handlers, under ids that tell concurrent requests apart
AwaitingRequests ==
  {[method |-> "tools/call", id |-> 1,
    params |-> [name |-> "list_stories", arguments |-> EmptyObject]],
   [method |-> "tools/call", id |-> 2,
    params |-> [name |-> "get_story",
                arguments |-> [storyId |-> "button--primary"]]],
   [method |-> "tools/call", id |-> 1,
    params |-> [name |-> "get_story",
                arguments |-> [storyId |-> "non-existent-story"]]],
   [method |-> "tools/call", id |-> 2,
    params |-> [name |-> "get_story_docs",
                arguments |-> [storyId |-> "button--primary"]]],
   [method |-> "resources/read", params |-> [uri |-> "storybook://stories"]]}

\* The requests answered without an await, of every method
ImmediateCalls ==
  {c \in McpCalls :
     Has(c, "params") =>
          /\ PropString(c.params, "name") \in {"undefined", "delete_story"}
          /\ PropString(c.params, "uri") # "storybook://stories"
          /\ ~Has(c.params, "arguments")
          /\ ~Has(c.params, "protocolVersion")}

ImmediateRequests == ImmediateCalls \cup {SetProp(c, "id", 1) : c \in ImmediateCalls}

\* The inventories requests are left in flight over
ParallelServices == {[status |-> "unreachable"]} \cup DocsServices

\* s without its i-th element
RemoveAt(s, i) == SubSeq(s, 1, i - 1) \o SubSeq(s, i + 1, Len(s))

\* The consts of one call (`request`, `method`, `params`, `id`, `args`,
\* `storyId`) belong to that call; the first definition keeps them in
\* variables of the module, which the call received last overwrites
localsOfLatest(pending, i) == pending[Len(pending)]
localsOf(pending, i) == pending[i]

\* The exchange of a request that was in flight
Completed(i) ==
  SetProp(Exchange("POST /mcp", inflight[i].request,
                   postMcp(localsOf(inflight, i).request, service, fs, app)),
          "overlapped", Len(inflight) > 1)

InitParallel ==
  /\ service \in ParallelServices
  /\ fs \in {f \in McpFileSystems : f.framework = "angular"}
  /\ lastCall = NoCall
  /\ changed = FALSE
  /\ app = createApp(fs)
  /\ NoTransport
  /\ NoStaticBuild

\* POST /mcp arrives and runs up to the `await fetch(...)` of its handler
ReceiveMcp ==
  /\ Len(inflight) < MaxInflight
  /\ \E request \in AwaitingRequests :
       inflight' = Append(inflight, [request |-> request, pc |-> "fetch"])
  /\ UNCHANGED <<service, fs, handlerVars, app, http, initialized, sessions,
                 streams, timers, staticDir, clock>>

\* POST /mcp arrives with a request that no handler is awaited for
AnswerMcp ==
  /\ \E request \in ImmediateRequests :
       /\ http' = Exchange("POST /mcp", request,
                           postMcp(request, service, fs, app))
       /\ initialized' =
            (initialized \/ PropString(request, "method") = "initialize")
  /\ UNCHANGED <<service, fs, handlerVars, app, sessions, streams, timers,
                 inflight, staticDir, clock>>

\* fetch settles: the handler goes on to `await response.json()`, or returns
\* (rejected fetch, response not ok) and the request is answered
FetchSettles ==
  \E i \in DOMAIN inflight :
    /\ inflight[i].pc = "fetch"
    /\ LET response == fetch(service) IN
       IF response.kind = "return" /\ response.value.ok
       THEN /\ inflight' = [inflight EXCEPT ![i].pc = "json"]
            /\ UNCHANGED http
       ELSE /\ http' = Completed(i)
            /\ inflight' = RemoveAt(inflight, i)
    /\ UNCHANGED <<service, fs, handlerVars, app, initialized, sessions, streams,
                   timers, staticDir, clock>>

\* response.json() settles: the handler runs to its end and the request is
\* answered
JsonSettles ==
  \E i \in DOMAIN inflight :
    /\ inflight[i].pc = "json"
    /\ http' = Completed(i)
    /\ inflight' = RemoveAt(inflight, i)
    /\ UNCHANGED <<service, fs, handlerVars, app, initialized, sessions, streams,
                   timers, staticDir, clock>>

NextParallel ==
  \/ ReceiveMcp
  \/ AnswerMcp
  \/ FetchSettles
  \/ JsonSettles

SpecParallel == InitParallel /\ [][NextParallel]_vars

(***************************************************************************)
(* SSE transport                                                           *)
(***************************************************************************)
MaxConnections == 2   \* GET /sse connections made
MaxEvents == 4        \* events written to all streams together

\* uuidv4(): the n-th call returns an id that no earlier call returned
UuidPool ==
  <<"1b9d6bcd-bbfd-4b2d-9b5d-ab8dfbbd4bed", "9c5b94b1-35ad-49bb-b118-8e8fc24abf80",
    "f7a1c2d3-0e4b-4c6a-8d9e-2b3c4d5e6f70", "0a1b2c3d-4e5f-4a6b-8c7d-9e0f1a2b3c4d">>
uuidv4(n) == UuidPool[n]
Uuids ==
  {uuidv4(n) : n \in 1..(IF MaxConnections < Len(UuidPool)
                         THEN MaxConnections ELSE Len(UuidPool))}

\* the number of events written to the first n connections
RECURSIVE EventsWritten(_, _)
EventsWritten(conns, n) ==
  IF n = 0 THEN 0 ELSE Len(conns[n].events) + EventsWritten(conns, n - 1)

\* `${protocol}://${host}/sse/messages?sessionId=${sessionId}`
messagesUrl(sessionId) ==
  <<"http", "://", "localhost:6006", "/sse/messages?sessionId=", sessionId>>

\* `event: endpoint\ndata: ${messagesUrl}\n\n`
EndpointEvent(sessionId) == [event |-> "endpoint", data |-> messagesUrl(sessionId)]

\* `event: message\ndata: ${JSON.stringify(response)}\n\n`
MessageEvent(response) == [event |-> "message", data |-> [json |-> response]]

\* `: ping\n\n`
PingComment == [comment |-> "ping"]

\* What GET /sse writes before it registers the session; the first
\* definition writes nothing and leaves the endpoint to be asked for
openingEventsNone(sessionId) == <<>>
openingEvents(sessionId) == <<EndpointEvent(sessionId)>>

\* app.post('/sse/messages'): the reply to the POST and what is written to
\* the stream of the session
postSseMessages(query, request, svc, fsys, application, registry) ==
  IF ~Has(query, "sessionId")
  THEN [reply |-> Reply(400, [error |-> "Missing sessionId parameter"], <<>>),
        written |-> <<>>]
  ELSE IF query.sessionId \notin DOMAIN registry
  THEN [reply |->
          Reply(404,
                [error |-> "Session not found",
                 hint |-> "The SSE session may have expired or disconnected. Please reconnect to /sse",
                 activeSessions |-> Cardinality(DOMAIN registry)],
                <<>>),
        written |-> <<>>]
  ELSE
    LET run == handleRequest(request, svc, fsys, application.mcpHandler) IN
    IF run.completion.kind = "return"
    THEN [reply |-> Reply(202, [status |-> "accepted"], run.invoked),
          written |-> <<MessageEvent(run.completion.value)>>]
    ELSE [reply |-> Reply(500, [error |-> run.completion.message], run.invoked),
          written |-> <<>>]

\* The requests posted over the SSE transport: a tool that succeeds, a tool
\* that fails, and a request that makes handleRequest throw
SseRequests ==
  {[method |-> "tools/call", id |-> 1,
    params |-> [name |-> "list_stories", arguments |-> EmptyObject]],
   [method |-> "tools/call", id |-> 2,
    params |-> [name |-> "get_story",
                arguments |-> [storyId |-> "non-existent-story"]]],
   [method |-> "tools/call", id |-> 1]}

SseQueries ==
  {EmptyObject, [sessionId |-> "no-such-session"]}
  \cup {[sessionId |-> u] : u \in Uuids}

InitSse ==
  /\ service \in DocsServices
  /\ fs \in {f \in McpFileSystems : f.framework = "angular"}
  /\ lastCall = NoCall
  /\ changed = FALSE
  /\ app = createApp(fs)
  /\ NoTransport
  /\ NoStaticBuild

\* app.get('/sse'): the endpoint event is written, the session is registered
\* and the keep-alive interval is set
GetSse ==
  /\ Len(streams) < MaxConnections
  /\ Len(streams) < Len(UuidPool)
  /\ EventsWritten(streams, Len(streams)) < MaxEvents
  /\ LET res == Len(streams) + 1
         sessionId == uuidv4(res)
     IN
       /\ streams' = Append(streams, [sessionId |-> sessionId, open |-> TRUE,
                                      events |-> openingEvents(sessionId)])
       /\ sessions' = (sessionId :> [res |-> res, createdAt |-> clock]) @@ sessions
       /\ timers' = timers \cup {res}
  /\ UNCHANGED <<service, fs, handlerVars, app, http, initialized, inflight,
                 staticDir, clock>>

\* req.on('close'): the client went away
SseClose ==
  /\ \E sessionId \in DOMAIN sessions :
       /\ sessions' = [s \in DOMAIN sessions \ {sessionId} |-> sessions[s]]
       /\ streams' = [streams EXCEPT ![sessions[sessionId].res].open = FALSE]
  /\ UNCHANGED <<service, fs, handlerVars, app, http, initialized, timers,
                 inflight, staticDir, clock>>

\* the callback of setInterval(..., 30000)
PingInterval ==
  /\ \E res \in timers :
       IF streams[res].sessionId \in DOMAIN sessions
       THEN /\ EventsWritten(streams, Len(streams)) < MaxEvents
            /\ streams' = [streams EXCEPT ![res].events = Append(@, PingComment)]
            /\ UNCHANGED timers
       ELSE /\ timers' = timers \ {res}
            /\ UNCHANGED streams
  /\ UNCHANGED <<service, fs, handlerVars, app, http, initialized, sessions,
                 inflight, staticDir, clock>>

PostSseMessages ==
  /\ \E query \in SseQueries, request \in SseRequests :
       \E served \in {postSseMessages(query, request, service, fs, app, sessions)} :
       /\ http' = Exchange("POST /sse/messages",
                           [query |-> query, body |-> request], served.reply)
       /\ fs' = projectAfter(fs, served.reply.invoked)
       /\ IF served.written = <<>> THEN UNCHANGED streams
          ELSE LET res == sessions[query.sessionId].res IN
               /\ EventsWritten(streams, Len(streams)) < MaxEvents
               /\ streams' = [streams EXCEPT ![res].events = @ \o served.written]
  /\ UNCHANGED <<service, handlerVars, app, initialized, sessions, timers,
                 inflight, staticDir, clock>>

\* a POST to /sse, with or without a sessionId
PostSse ==
  /\ \E query \in SseQueries, request \in SseRequests :
       http' = Exchange("POST /sse", [query |-> query, body |-> request],
                        postSse(query, request))
  /\ UNCHANGED <<service, fs, handlerVars, app, initialized, sessions, streams,
                 timers, inflight, staticDir, clock>>

NextSse ==
  \/ GetSse
  \/ SseClose
  \/ PingInterval
  \/ PostSseMessages
  \/ PostSse
  \/ GetApiDocs
  \/ GetApiStoriesByKind

SpecSse == InitSse /\ [][NextSse]_vars

(***************************************************************************)
(* SSE transport: POST /sse/messages across its await                      *)
(***************************************************************************)
MaxAwaiting == 1   \* POST /sse/messages callbacks suspended at their await

\* the writes made to the first n connections after they were closed
RECURSIVE WritesLost(_, _)
WritesLost(conns, n) ==
  IF n = 0 THEN 0
  ELSE (IF Has(conns[n], "lost") THEN Len(conns[n].lost) ELSE 0)
       + WritesLost(conns, n - 1)

\* The requests whose handler awaits fetch, so that other callbacks run
\* before `await mcpHandler.handleRequest(req.body)` resumes
SseAwaitingRequests == {r \in SseRequests : Has(r, "params")}

\* session.res.write(event): the event goes to the client of an open
\* connection; on a connection that was closed it reaches nobody
resWrite(conn, written) ==
  IF conn.open THEN [conn EXCEPT !.events = @ \o written]
  ELSE SetProp(conn, "lost",
               (IF Has(conn, "lost") THEN conn.lost ELSE <<>>) \o written)

InitSseAwait ==
  /\ service \in DocsServices
  /\ fs \in {f \in McpFileSystems : f.framework = "angular"}
  /\ lastCall = NoCall
  /\ changed = FALSE
  /\ app = createApp(fs)
  /\ NoTransport
  /\ NoStaticBuild

\* POST /sse/messages arrives: answered 400 or 404 at once, or `session` is
\* read from sseSessions and the callback waits for handleRequest
ReceiveSseMessage ==
  /\ \E query \in SseQueries, request \in SseAwaitingRequests :
       IF Has(query, "sessionId") /\ query.sessionId \in DOMAIN sessions
       THEN /\ Len(inflight) < MaxAwaiting
            /\ inflight' = Append(inflight,
                                  [query |-> query, request |-> request,
                                   session |-> sessions[query.sessionId],
                                   pc |-> "handleRequest"])
            /\ UNCHANGED http
       ELSE /\ http' = Exchange("POST /sse/messages",
                                [query |-> query, body |-> request],
                                postSseMessages(query, request, service, fs,
                                                app, sessions).reply)
            /\ UNCHANGED inflight
  /\ UNCHANGED <<service, fs, handlerVars, app, initialized, sessions, streams,
                 timers, staticDir, clock>>

\* handleRequest settles: the response is written to the res of the session
\* read before the await, and the POST is answered
SseMessageSettles ==
  /\ \E i \in DOMAIN inflight :
       \E served \in {postSseMessages(
                        inflight[i].query, inflight[i].request, service, fs, app,
                        inflight[i].query.sessionId :> inflight[i].session)} :
         /\ EventsWritten(streams, Len(streams))
              + WritesLost(streams, Len(streams)) < MaxEvents
         /\ http' = SetProp(Exchange("POST /sse/messages",
                                     [query |-> inflight[i].query,
                                      body |-> inflight[i].request],
                                     served.reply),
                            "registeredAtWrite",
                            inflight[i].query.sessionId \in DOMAIN sessions)
         /\ streams' = [streams EXCEPT ![inflight[i].session.res] =
                          resWrite(@, served.written)]
         /\ inflight' = RemoveAt(inflight, i)
         /\ fs' = projectAfter(fs, served.reply.invoked)
  /\ UNCHANGED <<service, handlerVars, app, initialized, sessions, timers,
                 staticDir, clock>>

NextSseAwait ==
  \/ GetSse
  \/ SseClose
  \/ ReceiveSseMessage
  \/ SseMessageSettles

SpecSseAwait == InitSseAwait /\ [][NextSseAwait]_vars

(***************************************************************************)
(* REST routes over every inventory, with SSE sessions coming and going    *)
(***************************************************************************)
RestServices == Services

\* req.query: an object, with or without ?kind=
RestQueries == ListArgs \ {Undefined}

InitRest ==
  /\ service \in RestServices
  /\ fs \in CoreFileSystems
  /\ lastCall = NoCall
  /\ changed = FALSE
  /\ app = createApp(fs)
  /\ NoTransport
  /\ NoStaticBuild

GetApiStories ==
  /\ \E query \in RestQueries :
       \E reply \in {getApiStories(query, service, fs, app)} :
         /\ http' = Exchange("GET /api/stories", query, reply)
         /\ fs' = projectAfter(fs, reply.invoked)
  /\ UNCHANGED <<service, handlerVars, app, initialized, sessions, streams,
                 timers, inflight, staticDir, clock>>

GetApiStory ==
  /\ \E storyId \in StoryIdArgs :
       \E reply \in {getApiStory(storyId, service, fs, app)} :
         /\ http' = Exchange("GET /api/stories/:storyId", [storyId |-> storyId],
                             reply)
         /\ fs' = projectAfter(fs, reply.invoked)
  /\ UNCHANGED <<service, handlerVars, app, initialized, sessions, streams,
                 timers, inflight, staticDir, clock>>

\* Storybook stops answering, or answers with an error status while it
\* starts again
StorybookStops ==
  /\ \E s \in {[status |-> "unreachable"], [status |-> "starting"]} \ {service} :
       service' = s
  /\ changed' = TRUE
  /\ UNCHANGED <<fs, lastCall, app, transportVars, staticDir, clock>>

NextRest ==
  \/ GetApi
  \/ GetMcp
  \/ GetApiStories
  \/ GetApiStory
  \/ GetApiDocs
  \/ GetApiStoriesByKind
  \/ GetSse
  \/ SseClose
  \/ StorybookStops

SpecRest == InitRest /\ [][NextRest]_vars

(***************************************************************************)
(* Static API generation (generateStaticApi of index.js)                   *)
(***************************************************************************)
MaxClock == 2         \* Date.now() advances this often

staticDirPath == <<"project", "storybook-static">>

\* createToolHandlers({ storybookUrl: 'unused', projectDir, staticDir }): the
\* handlers of server.js fetch `${storybookUrl}/index.json`, here the
\* relative URL 'unused/index.json'
UnusedService == [status |-> "relative", url |-> <<"unused", "/index.json">>]

\* storyId.replace(/[^a-zA-Z0-9_-]/g, '_'); of the ids of the model only
\* 'forms/input--default' holds a character outside the class
safeId(storyId) ==
  IF storyId = "forms/input--default" THEN "forms_input--default" ELSE storyId

apiInfoStamped ==
  [success |-> TRUE, name |-> "Storybook MCP API", version |-> "1.4.0",
   mode |-> "static", generatedAt |-> clock,
   endpoints |->
     << <<"GET /api", "This documentation">>,
        <<"GET /api/stories.json", "Get all stories">>,
        <<"GET /api/stories/{storyId}.json", "Get story details">>,
        <<"GET /api/docs/{storyId}.json", "Get story documentation">> >>,
   note |-> "This is a static API. MCP protocol requires a running server."]
apiInfo ==
  [success |-> TRUE, name |-> "Storybook MCP API", version |-> "1.4.0",
   mode |-> "static",
   endpoints |->
     << <<"GET /api", "This documentation">>,
        <<"GET /api/stories.json", "Get all stories">>,
        <<"GET /api/stories/{storyId}.json", "Get story details">>,
        <<"GET /api/docs/{storyId}.json", "Get story documentation">> >>,
   note |-> "This is a static API. MCP protocol requires a running server."]

\* the nginx example, abridged to the lines that hold ${staticDir}
nginxConfig ==
  <<"location /api { alias ", staticDirPath, "/api; }",
    "location /api/stories/ { alias ", staticDirPath, "/api/stories/; }",
    "location /api/docs/ { alias ", staticDirPath, "/api/docs/; }">>

\* fs.writeFileSync(file, content): the file is created or replaced
writeFileSync(files, file, content) == (file :> content) @@ files

\* The loop over the entries: stories/${safeId}.json and docs/${safeId}.json
\* of the entries from the i-th on
RECURSIVE WriteEntries(_, _, _, _, _)
WriteEntries(files, stories, i, handlers, fsys) ==
  IF i > Len(stories) THEN files
  ELSE
    LET storyId == stories[i].id
        storyResult == getStory(UnusedService, fsys, [storyId |-> storyId]).value
        docsResult == getStoryDocs(UnusedService, fsys, handlers,
                                   [storyId |-> storyId]).completion.value
        withStory == writeFileSync(files, <<"api", "stories", safeId(storyId), ".json">>,
                                   Stringify(storyResult))
        withDocs == writeFileSync(withStory, <<"api", "docs", safeId(storyId), ".json">>,
                                  Stringify(docsResult))
    IN WriteEntries(withDocs, stories, i + 1, handlers, fsys)

\* generateStaticApi(staticDir, projectDir): what it returns or throws, and
\* the api directory it leaves
generateStaticApi(dir, fsys) ==
  IF ~Has(dir, "index")
  THEN [completion |-> Throw(<<"No index.json found in ", staticDirPath>>),
        dir |-> dir]
  ELSE
    LET handlers == createToolHandlers(fsys)
        before == IF Has(dir, "api") THEN dir.api ELSE EmptyObject
        stories == ObjectValues(EntriesOrEmpty(dir.index))
        withInfo == writeFileSync(before, <<"api", "index.json">>, Stringify(apiInfo))
        withStories ==
          writeFileSync(withInfo, <<"api", "stories.json">>,
                        Stringify(listStories(UnusedService, EmptyObject).value))
        withEntries == WriteEntries(withStories, stories, 1, handlers, fsys)
        withNginx == writeFileSync(withEntries, <<"api", "nginx.conf.example">>,
                                   nginxConfig)
    IN [completion |->
          Return([apiDir |-> Append(staticDirPath, "api"),
                  storyCount |-> Len(stories), docsCount |-> Len(stories)]),
        dir |-> SetProp(dir, "api", withNginx)]

\* index.json of a static build: no entries, or entries in the order of the
\* build
StaticEntry(id) ==
  [id |-> id, title |-> "Example/Button", name |-> "Primary", type |-> "story",
   importPath |-> StoryImportPath]

StaticIndexes ==
  {[v |-> 5],
   [v |-> 5, entries |-> << <<"button--primary", StaticEntry("button--primary")>> >>],
   [v |-> 5, entries |-> << <<"button--primary", StaticEntry("button--primary")>>,
                            <<"forms/input--default",
                              StaticEntry("forms/input--default")>> >>],
   [v |-> 5, entries |-> << <<"forms/input--default",
                              StaticEntry("forms/input--default")>>,
                            <<"forms_input--default",
                              StaticEntry("forms_input--default")>> >>]}

\* The directory `storybook build` leaves: with or without index.json, and
\* without the api directory
StaticBuilds == {EmptyObject} \cup {[index |-> i] : i \in StaticIndexes}

BatchServices == {[status |-> "unreachable"]} \cup DocsServices

InitBatch ==
  /\ service \in BatchServices
  /\ fs \in McpFileSystems
  /\ lastCall = NoCall
  /\ changed = FALSE
  /\ app = createApp(fs)
  /\ NoTransport
  /\ staticDir \in StaticBuilds
  /\ clock = 0

\* The record of one run: what it was given, what it answered, the api
\* directory before and after, and whether the run before it was a completed
\* run over the same build and project whose output is still in place
GenerateStaticApi ==
  /\ LET run == generateStaticApi(staticDir, fs) IN
     /\ staticDir' = run.dir
     /\ lastCall' =
          [op |-> "generateStaticApi", build |-> staticDir, project |-> fs,
           completion |-> run.completion,
           after |-> run.dir,
           rerun |-> /\ lastCall.op = "generateStaticApi"
                     /\ lastCall.completion.kind = "return"
                     /\ lastCall.project = fs
                     /\ lastCall.after = staticDir]
  /\ changed' = FALSE
  /\ UNCHANGED <<service, fs, app, transportVars, clock>>

\* `storybook build` runs again: the output directory is made anew
StaticBuildChanges ==
  /\ \E b \in StaticBuilds \ {staticDir} : staticDir' = b
  /\ UNCHANGED <<service, fs, handlerVars, app, transportVars, clock>>

\* Time passes
Tick ==
  /\ clock < MaxClock
  /\ clock' = clock + 1
  /\ UNCHANGED <<service, fs, handlerVars, app, transportVars, staticDir>>

\* The project directory is edited between two runs
ProjectEdited ==
  /\ \E f \in McpFileSystems \ {fs} : fs' = f
  /\ UNCHANGED <<service, handlerVars, app, transportVars, staticDir, clock>>

\* The inventory the running server reads changes between two calls
InventoryEdited ==
  /\ \E s \in BatchServices \ {service} : service' = s
  /\ changed' = TRUE
  /\ UNCHANGED <<fs, lastCall, app, transportVars, staticDir, clock>>

NextBatch ==
  \/ GenerateStaticApi
  \/ GetStoryDocs
  \/ StaticBuildChanges
  \/ Tick
  \/ ProjectEdited
  \/ InventoryEdited

SpecBatch == InitBatch /\ [][NextBatch]_vars

(***************************************************************************)
(* Command line: detection of the build directory                          *)
(***************************************************************************)
\* JSON null, and a JSON string whose text is a path
Null == [jstype |-> "null"]
Str(p) == [jstype |-> "string", value |-> p]

\* obj?.prop
Opt(obj, prop) ==
  IF obj \in {Null, Undefined} THEN Undefined
  ELSE IF Has(obj, prop) THEN obj[prop]
  ELSE Undefined

\* a value is a non-empty string
NonEmptyString(v) == Has(v, "jstype") /\ v.jstype = "string" /\ v.value # <<>>

\* JSON.parse(text): the value the text denotes, or a SyntaxError
JSONparse(text) ==
  IF Has(text, "json") THEN Return(text.json)
  ELSE Throw(<<"Unexpected token in JSON">>)

\* const defaultDirs = ['storybook-static', 'dist/storybook', 'build/storybook']
defaultDirs ==
  << <<"storybook-static">>, <<"dist", "storybook">>, <<"build", "storybook">> >>

\* for (const dir of defaultDirs): the first that exists and holds index.json
RECURSIVE firstDefaultDir(_, _)
firstDefaultDir(files, i) ==
  IF i > Len(defaultDirs) THEN Null
  ELSE
    LET fullPath == pathJoin(projectDir, defaultDirs[i]) IN
    IF existsSync(files, fullPath)
       /\ existsSync(files, pathJoin(fullPath, <<"index.json">>))
    THEN [dir |-> fullPath, source |-> "auto-detected"]
    ELSE firstDefaultDir(files, i + 1)

\* a detection that does not look at angular.json
detectDefaultsOnly(files) == firstDefaultDir(files, 1)

\* for (const project of Object.values(angularJson.projects || {})): the
\* result the loop returns from the i-th project on, None when it ends, the
\* TypeError of reading a property of a project that is null
RECURSIVE buildStorybookOutputDir(_, _, _)
buildStorybookOutputDir(files, projects, i) ==
  IF i > Len(projects) THEN Return(None)
  ELSE
    LET project == projects[i] IN
    IF project \in {Null, Undefined}
    THEN Throw(<<"Cannot read properties of null (reading 'architect')">>)
    ELSE
      LET buildStorybook == Opt(Opt(project, "architect"), "build-storybook")
          declared == Opt(Opt(buildStorybook, "options"), "outputDir")
      IN IF NonEmptyString(declared)
            /\ existsSync(files, pathJoin(projectDir, declared.value))
         THEN Return([dir |-> pathJoin(projectDir, declared.value),
                      source |-> "angular.json"])
         ELSE buildStorybookOutputDir(files, projects, i + 1)

\* the try block over angular.json
angularJsonOutputDir(files) ==
  LET angularJsonPath == pathJoin(projectDir, <<"angular.json">>)
      text == readFileSync(files, angularJsonPath)
      angularJson == JSONparse(text.value)
  IN IF text.kind = "throw" THEN text
     ELSE IF angularJson.kind = "throw" THEN angularJson
     ELSE IF angularJson.value \in {Null, Undefined}
     THEN Throw(<<"Cannot read properties of null (reading 'projects')">>)
     ELSE buildStorybookOutputDir(
            files,
            IF Has(angularJson.value, "projects")
            THEN ObjectValues(angularJson.value.projects) ELSE <<>>,
            1)

\* detectStorybookOutputDir(projectDir) -> { dir, source } | null
detectStorybookOutputDir(files) ==
  LET angularJsonPath == pathJoin(projectDir, <<"angular.json">>)
      declared == IF existsSync(files, angularJsonPath)
                  THEN angularJsonOutputDir(files)
                  ELSE Return(None)
  IN IF declared.kind = "return" /\ declared.value # None
     THEN declared.value
     ELSE firstDefaultDir(files, 1)

(***************************************************************************)
(* Command line: the action of the program                                 *)
(***************************************************************************)
\* detectStorybookVersion(projectDir), findStorybookConfig(projectDir)
Num(n) == [jstype |-> "number", value |-> n]
detectStorybookVersion(fsys) ==
  IF Has(fsys, "storybook") THEN Num(fsys.storybook.version) ELSE Null
findStorybookConfig(fsys) ==
  IF Has(fsys, "storybook") THEN Str(fsys.storybook.configDir) ELSE Null

\* parseInt(text, 10) of the port numbers given on the command line
parseInt(text) ==
  CASE text = "6006" -> 6006
    [] text = "6010" -> 6010
    [] text = "8080" -> 8080

\* for (const [projectName, project] of Object.entries(projects)): the index
\* of the first project with an architect.storybook target, 0 when none
RECURSIVE storybookTarget(_, _)
storybookTarget(projects, i) ==
  IF i > Len(projects) THEN 0
  ELSE IF Opt(Opt(projects[i][2], "architect"), "storybook") # Undefined THEN i
  ELSE storybookTarget(projects, i + 1)

\* startStorybookProcess(config): the child process spawned and the project
\* directory it leaves; an Angular project with Storybook 8+ and a storybook
\* target gets compodoc and port written to angular.json and runs the npm
\* script (package.json is not looked at here: both branches run the script)
startStorybookProcess(config, fsys) ==
  LET angularJsonPath == pathJoin(projectDir, <<"angular.json">>)
      npx == [cmd |-> "npx",
              args |-> <<"storybook", "dev", "-p", config.storybookPort,
                         "--no-open">>]
      text == readFileSync(fsys.files, angularJsonPath)
      angularJson == JSONparse(text.value)
      projects == IF Has(angularJson.value, "projects")
                  THEN angularJson.value.projects ELSE <<>>
      target == storybookTarget(projects, 1)
      storybook == projects[target][2].architect.storybook
      options == (IF Has(storybook, "options") THEN storybook.options
                  ELSE EmptyObject)
      written ==
        [angularJson.value EXCEPT
           !.projects[target][2].architect.storybook =
              SetProp(storybook, "options",
                      SetProp(SetProp(options, "compodoc", FALSE),
                              "port", config.storybookPort))]
  IN IF config.framework = "angular" /\ config.version # Null
        /\ config.version.value >= 8 /\ existsSync(fsys.files, angularJsonPath)
        /\ text.kind = "return" /\ angularJson.kind = "return"
        /\ angularJson.value \notin {Null, Undefined} /\ target > 0
     THEN [process |-> [cmd |-> "npm", args |-> <<"run", "storybook">>],
           project |-> [fsys EXCEPT !.files =
                          writeFileSync(@, angularJsonPath,
                                        [readable |-> TRUE, json |-> written])]]
     ELSE [process |-> npx, project |-> fsys]

\* startServer(config): the application, the child process and the proxy in
\* front of it when config.proxy holds, and the port listened on
startServer(config, fsys) ==
  LET started == startStorybookProcess(config, fsys) IN
  IF config.proxy
  THEN [app |-> createApp(fsys), storybookProcess |-> started.process,
        middleware |-> <<[use |-> "createProxyMiddleware",
                          target |-> config.storybookUrl]>>,
        listening |-> config.port, project |-> started.project,
        calls |-> <<"createApp", "startStorybookProcess", "listen">>]
  ELSE [app |-> createApp(fsys), storybookProcess |-> Null,
        middleware |-> <<>>,
        listening |-> config.port, project |-> fsys,
        calls |-> <<"createApp", "listen">>]

\* the build directory at dir as generateStaticApi finds it
buildAt(files, dir) ==
  LET indexJsonPath == pathJoin(dir, <<"index.json">>) IN
  IF existsSync(files, indexJsonPath) /\ Has(files[indexJsonPath], "json")
  THEN [index |-> files[indexJsonPath].json]
  ELSE EmptyObject

\* the files of an api directory, under the build directory they were
\* written in
placeUnder(dir, written) ==
  [q \in {dir \o p : p \in DOMAIN written} |->
     written[SubSeq(q, Len(dir) + 1, Len(q))]]

\* process.exit(code)
Exit(code, calls, fsys) ==
  [outcome |-> "exit", code |-> code, calls |-> calls, project |-> fsys]

\* const detected = detectStorybookOutputDir(projectDir), kept with the run
Detected(detected, run) == SetProp(run, "detected", detected)

\* a --generate-api branch that reports success whatever happened
generateApiExitingZero(targetDir, calls, fsys) ==
  Exit(0, Append(calls, "generateStaticApi"), fsys)

\* the --generate-api branch once targetDir is known
generateApiInto(targetDir, calls, fsys) ==
  LET run == generateStaticApi(buildAt(fsys.files, targetDir), fsys) IN
  IF run.completion.kind = "return"
  THEN Exit(0, Append(calls, "generateStaticApi"),
            [fsys EXCEPT !.files = placeUnder(targetDir, run.dir.api) @@ @])
  ELSE Exit(1, Append(calls, "generateStaticApi"), fsys)

\* the part of the action after the static directory was settled: detection
\* in non-static mode only, the config, startServer(config)
serve(options, dir, calls, fsys) ==
  LET static == NonEmptyString(dir)
      config ==
        [port |-> parseInt(options.port),
         storybookPort |-> parseInt(options.storybookPort),
         storybookUrl |-> <<"http://localhost:", options.storybookPort>>,
         projectDir |-> projectDir,
         configDir |-> IF static THEN Null ELSE findStorybookConfig(fsys),
         proxy |-> IF static THEN FALSE ELSE options.proxy # FALSE,
         staticDir |-> dir,
         version |-> IF static THEN Null ELSE detectStorybookVersion(fsys),
         framework |-> IF static THEN "unknown" ELSE detectFramework(fsys)]
      detections == IF static THEN <<>>
                    ELSE <<"detectStorybookVersion", "detectFramework",
                           "findStorybookConfig">>
      server == startServer(config, fsys)
  IN [outcome |-> "listening", config |-> config, server |-> server,
      calls |-> calls \o detections \o <<"startServer">> \o server.calls,
      project |-> server.project]

\* a static mode that starts the server without looking at the directory
serveStaticUnchecked(options, dir, calls, fsys) ==
  serve(options, Str(dir), calls, fsys)

\* the checks of the static directory before the server is started
serveStatic(options, dir, calls, fsys) ==
  IF ~existsSync(fsys.files, dir) THEN Exit(1, calls, fsys)
  ELSE IF ~existsSync(fsys.files, pathJoin(dir, <<"index.json">>))
  THEN Exit(1, calls, fsys)
  ELSE serve(options, Str(dir), calls, fsys)

\* .action(async (options) => { ... }): how the run of the program ends, in
\* process.exit(code) or with the server listening, the functions it called
\* on the way and the project directory it leaves
action(options, fsys) ==
  LET detected == detectStorybookOutputDir(fsys.files)
      detecting == <<"detectStorybookOutputDir">>
  IN IF options.generateApi # Undefined
     THEN IF NonEmptyString(options.generateApi)
          THEN generateApiInto(pathResolve(projectDir, options.generateApi.value),
                               <<>>, fsys)
          ELSE IF detected # Null
          THEN Detected(detected, generateApiInto(detected.dir, detecting, fsys))
          ELSE Detected(detected, Exit(1, detecting, fsys))
     ELSE IF options.static # Undefined
     THEN IF NonEmptyString(options.static)
          THEN serveStatic(options,
                           pathResolve(projectDir, options.static.value),
                           <<>>, fsys)
          ELSE IF detected # Null
          THEN Detected(detected, serveStatic(options, detected.dir, detecting, fsys))
          ELSE Detected(detected, Exit(1, detecting, fsys))
     ELSE serve(options, Null, <<>>, fsys)

(***************************************************************************)
(* One run of the program from the command line                            *)
(***************************************************************************)
\* the output directories the angular.json files of the runs declare
AppOutputDir == <<"dist", "storybook", "app">>
LibOutputDir == <<"dist", "storybook", "lib">>

BuildStorybook(outputDir) ==
  [architect |-> ("build" :> EmptyObject)
                 @@ ("build-storybook" :> [options |-> [outputDir |-> Str(outputDir)]])]

\* projects of angular.json: without targets, without a build-storybook
\* target, with a storybook target, declaring an output directory
AngularWorkspaces ==
  {EmptyObject,
   [projects |-> << <<"app", EmptyObject>> >>],
   [projects |-> << <<"app", [architect |-> [build |-> EmptyObject]]>>,
                    <<"lib", BuildStorybook(LibOutputDir)>> >>],
   [projects |-> << <<"app", BuildStorybook(<<>>)>> >>],
   [projects |-> << <<"app", BuildStorybook(AppOutputDir)>> >>],
   [projects |-> << <<"app", BuildStorybook(AppOutputDir)>>,
                    <<"lib", BuildStorybook(LibOutputDir)>> >>],
   [projects |-> << <<"lib", BuildStorybook(LibOutputDir)>>,
                    <<"app", BuildStorybook(AppOutputDir)>> >>],
   [projects |-> << <<"app", [architect |->
                                [storybook |-> [builder |-> "storybook"]]]>>,
                    <<"lib", BuildStorybook(LibOutputDir)>> >>]}

\* angular.json: none, one that cannot be read, one that is no JSON, the
\* JSON text null, a workspace
AngularJsonFiles ==
  {EmptyObject} \cup
  {pathJoin(projectDir, <<"angular.json">>) :> f :
     f \in {Unreadable, [readable |-> TRUE], [readable |-> TRUE, json |-> Null]}
           \cup {[readable |-> TRUE, json |-> w] : w \in AngularWorkspaces}}

\* a directory of the project: absent, empty, or a Storybook build
Directory == Unreadable
BuiltIndex ==
  [v |-> 5, entries |-> << <<"button--primary", StaticEntry("button--primary")>> >>]
DirectoryStates(dir, states) ==
  LET at == pathJoin(projectDir, dir) IN
  {f \in {EmptyObject, at :> Directory,
          (at :> Directory)
          @@ (pathJoin(at, <<"index.json">>) :>
                [readable |-> TRUE, json |-> BuiltIndex])} :
     Cardinality(DOMAIN f) \in states}

\* a directory that holds one of the declared output directories exists
WithParent(files) ==
  IF \E p \in DOMAIN files : Len(p) > 3 /\ SubSeq(p, 1, 3) = <<"project", "dist", "storybook">>
  THEN files @@ (<<"project", "dist", "storybook">> :> Directory)
  ELSE files

CliFiles ==
  {WithParent(a @@ s @@ d @@ b @@ o @@ l) :
     a \in AngularJsonFiles,
     s \in DirectoryStates(<<"storybook-static">>, {0, 1, 2}),
     d \in DirectoryStates(<<"dist", "storybook">>, {0, 2}),
     b \in DirectoryStates(<<"build", "storybook">>, {0, 2}),
     o \in DirectoryStates(AppOutputDir, {0, 1, 2}),
     l \in DirectoryStates(LibOutputDir, {0, 1})}

CliFileSystems ==
  {[framework |-> "angular", storybook |-> [version |-> 8, configDir |-> <<"project", ".storybook">>],
    files |-> f] : f \in CliFiles}

\* what commander hands to the action: --generate-api and --static are
\* undefined, true (no path given) or the path given; --no-proxy makes proxy
\* false; the ports are the texts given or the defaults
Flag == [jstype |-> "boolean", value |-> TRUE]
CliOptions ==
  {[generateApi |-> g, static |-> s, proxy |-> p, port |-> port,
    storybookPort |-> "6010"] :
     g \in {Undefined, Flag, Str(<<>>), Str(<<"storybook-static">>)},
     s \in {Undefined, Flag, Str(<<>>), Str(<<"dist", "storybook", "app">>)},
     p \in BOOLEAN, port \in {"6006", "8080"}}

InitCli ==
  /\ service = [status |-> "unreachable"]
  /\ fs \in CliFileSystems
  /\ lastCall = NoCall
  /\ changed = FALSE
  /\ app = EmptyObject
  /\ NoTransport
  /\ NoStaticBuild

\* The program is run: the action of the command to its end
Cli ==
  /\ lastCall = NoCall
  /\ \E options \in CliOptions :
       \E run \in {action(options, fs)} :
         /\ lastCall' = [op |-> "cli", options |-> options, project |-> fs,
                         run |-> run]
         /\ fs' = run.project
         /\ app' = IF run.outcome = "listening" THEN run.server.app ELSE app
         /\ service' = IF run.outcome = "listening"
                          /\ run.server.storybookProcess # Null
                       THEN [status |-> "starting"] ELSE service
  /\ UNCHANGED <<changed, transportVars, staticDir, clock>>

\* SIGINT or SIGTERM while the server listens: the child process is killed,
\* the server closed and the process exits with code 0
Shutdown ==
  /\ lastCall.op = "cli"
  /\ lastCall.run.outcome = "listening"
  /\ lastCall' = [lastCall EXCEPT
                    !.run = [SetProp(@, "code", 0) EXCEPT
                               !.outcome = "exit",
                               !.calls = Append(@, "shutdown")]]
  /\ service' = [status |-> "unreachable"]
  /\ UNCHANGED <<fs, changed, app, transportVars, staticDir, clock>>

NextCli == Cli \/ Shutdown

SpecCli == InitCli /\ [][NextCli]_vars

(***************************************************************************)
(* The listening server: readiness wait, SSE clients, shutdown             *)
(***************************************************************************)
\* The runs that reach app.listen: Storybook started and proxied, --no-proxy,
\* and a static build served
ListeningOptions ==
  {o \in CliOptions : /\ o.generateApi = Undefined
                      /\ o.static \in {Undefined, Flag}
                      /\ o.port = "6006"}
ListeningFileSystems ==
  {f \in CliFileSystems :
     /\ <<"project", "angular.json">> \notin DOMAIN f.files
     /\ DOMAIN f.files \subseteq {<<"project", "storybook-static">>,
                                  <<"project", "storybook-static", "index.json">>}
     /\ DOMAIN f.files # {<<"project", "storybook-static">>}}
ListeningRuns ==
  {[op |-> "cli", options |-> o, project |-> f, run |-> action(o, f)] :
     o \in ListeningOptions, f \in ListeningFileSystems}

\* the inventory of the Storybook that was started, once it serves stories
ReadyService == CHOOSE s \in DocsServices : TRUE

\* startServer(config) has returned its promise: the application is made,
\* the child process spawned when config.proxy holds, app.listen was called
\* and the handlers of SIGINT and SIGTERM are registered
InitListening ==
  /\ lastCall \in {r \in ListeningRuns : r.run.outcome = "listening"}
  /\ fs = lastCall.run.project
  /\ app = lastCall.run.server.app
  /\ service = IF lastCall.run.server.storybookProcess # Null
               THEN [status |-> "starting"] ELSE [status |-> "unreachable"]
  /\ changed = FALSE
  /\ NoTransport
  /\ NoStaticBuild

Running == lastCall.run.outcome \in {"listening", "closing"}

\* the callback of app.listen: with a proxied Storybook the readiness wait
\* begins, without one the server is announced as started
ListenCallback ==
  /\ Running
  /\ ~Has(lastCall.run, "wait")
  /\ lastCall' = [lastCall EXCEPT
                    !.run = SetProp(@, "wait",
                                    IF @.config.proxy
                                       /\ @.server.storybookProcess # Null
                                    THEN "polling" ELSE "none")]
  /\ UNCHANGED <<service, fs, changed, app, transportVars, staticDir, clock>>

\* the Storybook that was spawned begins to serve index.json
StorybookServes ==
  /\ Running
  /\ service.status = "starting"
  /\ service' = ReadyService
  /\ UNCHANGED <<fs, handlerVars, app, transportVars, staticDir, clock>>

\* one round of the readiness loop: index.json with entries ends the wait,
\* otherwise the loop sleeps and goes on, or maxWaitTime has passed
ReadinessWait ==
  /\ Running
  /\ Has(lastCall.run, "wait") /\ lastCall.run.wait = "polling"
  /\ LET response == fetch(service)
         storybookReady ==
           /\ response.kind = "return" /\ response.value.ok
           /\ EntriesOrEmpty(service.data) # <<>>
     IN \E later \in (IF storybookReady THEN {"ready"} ELSE {"timedOut"}) :
          lastCall' = [lastCall EXCEPT !.run.wait = later]
  /\ UNCHANGED <<service, fs, changed, app, transportVars, staticDir, clock>>

\* GET /sse on the listening server
Connect == lastCall.run.outcome = "listening" /\ GetSse

\* the SSE client goes away
Disconnect == Running /\ SseClose

\* the keep-alive interval of a connection fires
KeepAlive == Running /\ PingInterval

\* shutdown(): SIGINT or SIGTERM. The child process is killed, then
\* server.close(callback) stops the server accepting connections; the
\* callback runs once every connection has ended
Sigint ==
  /\ lastCall.run.outcome = "listening"
  /\ LET storybookProcess == lastCall.run.server.storybookProcess IN
     /\ lastCall' = [lastCall EXCEPT
                       !.run.outcome = "closing",
                       !.run.calls =
                          @ \o (IF storybookProcess # Null
                                THEN <<"storybookProcess.kill">> ELSE <<>>)
                            \o <<"server.close">>]
     /\ service' = IF storybookProcess # Null
                   THEN [status |-> "unreachable"] ELSE service
  /\ UNCHANGED <<fs, changed, app, transportVars, staticDir, clock>>

\* the callback of server.close: process.exit(0)
ServerClosed ==
  /\ lastCall.run.outcome = "closing"
  /\ \A n \in DOMAIN streams : ~streams[n].open
  /\ lastCall' = [lastCall EXCEPT
                    !.run = [SetProp(@, "code", 0) EXCEPT
                               !.outcome = "exit",
                               !.calls = Append(@, "process.exit")]]
  /\ UNCHANGED <<service, fs, changed, app, transportVars, staticDir, clock>>

NextListening ==
  \/ ListenCallback
  \/ StorybookServes
  \/ ReadinessWait
  \/ Connect
  \/ Disconnect
  \/ KeepAlive
  \/ Sigint
  \/ ServerClosed

SpecListening == InitListening /\ [][NextListening]_vars

\* the event loop runs a callback that is due; clients and signals come when
\* they will
SpecListeningFair ==
  /\ SpecListening
  /\ WF_vars(ListenCallback)
  /\ WF_vars(ReadinessWait)
  /\ WF_vars(ServerClosed)

(***************************************************************************)
(* The listening server: requests, routes and the Storybook proxy          *)
(***************************************************************************)
\* the characters of the first segment of a request path
Chars(segment) ==
  CASE segment = "mcp" -> <<"m", "c", "p">>
    [] segment = "sse" -> <<"s", "s", "e">>
    [] segment = "api" -> <<"a", "p", "i">>
    [] segment = "apiary" -> <<"a", "p", "i", "a", "r", "y">>
    [] segment = "ap" -> <<"a", "p">>
    [] segment = "iframe.html" ->
         <<"i", "f", "r", "a", "m", "e", ".", "h", "t", "m", "l">>
    [] segment = "index.json" ->
         <<"i", "n", "d", "e", "x", ".", "j", "s", "o", "n">>

\* req.path as text: '/', the characters of the first segment, and the other
\* segments after a '/' each
RECURSIVE afterFirst(_)
afterFirst(segments) ==
  IF segments = <<>> THEN <<>>
  ELSE <<"/", Head(segments)>> \o afterFirst(Tail(segments))
pathText(path) ==
  IF path = <<>> THEN <<"/">>
  ELSE <<"/">> \o Chars(Head(path)) \o afterFirst(Tail(path))

\* text.startsWith(prefix)
startsWith(text, prefix) ==
  Len(text) >= Len(prefix) /\ SubSeq(text, 1, Len(prefix)) = prefix

\* a filter that lets every request through to Storybook
pathFilterAll(path) == TRUE

\* pathFilter of the proxy: our API routes are not proxied
pathFilter(path) ==
  IF \/ startsWith(pathText(path), <<"/", "m", "c", "p">>)
     \/ startsWith(pathText(path), <<"/", "s", "s", "e">>)
     \/ startsWith(pathText(path), <<"/", "a", "p", "i">>)
  THEN FALSE
  ELSE TRUE

\* the route path of createApp that req.path matches, '' when none does
routePath(path) ==
  CASE path = <<"mcp">> -> "/mcp"
    [] path = <<"sse">> -> "/sse"
    [] path = <<"sse", "messages">> -> "/sse/messages"
    [] path = <<"api">> -> "/api"
    [] path = <<"api", "stories">> -> "/api/stories"
    [] Len(path) = 3 /\ SubSeq(path, 1, 2) = <<"api", "stories">> ->
         "/api/stories/:storyId"
    [] Len(path) = 3 /\ SubSeq(path, 1, 2) = <<"api", "docs">> ->
         "/api/docs/:storyId"
    [] Len(path) = 4 /\ SubSeq(path, 1, 3) = <<"api", "stories", "kind">> ->
         "/api/stories/kind/:kind"
    [] OTHER -> ""

\* the proxy forwards to storybookUrl: Storybook answers, or onError writes
\* the 'Storybook is starting' page
forward(svc) ==
  IF svc.status = "ok" THEN Reply(200, [from |-> "storybook"], <<>>)
  ELSE Reply(503, <<"Storybook is starting...">>, <<>>)

\* One request through the application: cors(), express.json(), the routes
\* in registration order (the callback of the route answers), the proxy
\* mounted after them when there is one, and the end of the stack
handle(method, path, body, svc, server) ==
  IF method = "OPTIONS"
  THEN [by |-> "cors", forwarded |-> FALSE, status |-> 204]
  ELSE IF body = [malformed |-> TRUE]
  THEN [by |-> "express.json", forwarded |-> FALSE, status |-> 400]
  ELSE IF registered(method, routePath(path))
  THEN [by |-> "route", forwarded |-> FALSE, route |-> routePath(path)]
  ELSE IF server.middleware # <<>> /\ pathFilter(path)
  THEN [by |-> "proxy", forwarded |-> TRUE, status |-> forward(svc).status]
  ELSE [by |-> "express", forwarded |-> FALSE,
        status |-> noRoute(method, path).status]

\* The requests made of the listening server
RequestPaths ==
  {<<>>, <<"iframe.html">>, <<"index.json">>, <<"ap", "i">>, <<"apiary">>,
   <<"mcp">>, <<"mcp", "tools">>, <<"sse">>, <<"sse", "messages">>, <<"api">>,
   <<"api", "stories">>, <<"api", "stories", "button--primary">>,
   <<"api", "docs", "button--primary">>, <<"api", "stories", "kind", "Forms">>,
   <<"api", "unknown">>}
RequestBodies ==
  {EmptyObject, [malformed |-> TRUE], [method |-> "ping", id |-> 1]}
Requests ==
  {r \in [method : {"GET", "POST", "OPTIONS"}, path : RequestPaths,
          body : RequestBodies] :
     /\ r.method = "GET" => r.body = EmptyObject
     /\ r.method = "POST" => r.body # EmptyObject}

\* a request arrives and goes through the application
Request ==
  /\ Running
  /\ \E r \in Requests :
       \E handled \in {handle(r.method, r.path, r.body, service,
                              lastCall.run.server)} :
         http' = [route |-> "request", method |-> r.method, path |-> r.path,
                  body |-> r.body, inventory |-> service, handled |-> handled]
  /\ UNCHANGED <<service, fs, handlerVars, app, initialized, sessions, streams,
                 timers, inflight, staticDir, clock>>

\* the Storybook process ends on its own
StorybookExits ==
  /\ Running
  /\ lastCall.run.server.storybookProcess # Null
  /\ service.status \in {"starting", "ok"}
  /\ service' = [status |-> "unreachable"]
  /\ changed' = TRUE
  /\ UNCHANGED <<fs, lastCall, app, transportVars, staticDir, clock>>

NextProxy ==
  \/ ListenCallback
  \/ StorybookServes
  \/ StorybookExits
  \/ ReadinessWait
  \/ Request

SpecProxy == InitListening /\ [][NextProxy]_vars

(***************************************************************************)
(* Properties                                                              *)
(***************************************************************************)
Called == lastCall.op # "none"
Returned == Called /\ lastCall.completion.kind = "return"
Result == lastCall.completion.value

\* the entries of the inventory as it was at the call
EntriesAtCall ==
  IF lastCall.inventory.status = "ok"
  THEN EntriesOrEmpty(lastCall.inventory.data)
  ELSE <<>>

StoryCall ==
  /\ lastCall.op \in {"getStory", "getStoryDocs"}
  /\ Has(lastCall.args, "storyId")

\* C1: for getStory and getStoryDocs, a story id absent from the entries of
\* a reachable inventory yields the not-found result: success=false with
\* error 'Story "<id>" not found', which no other outcome produces.
C1_AbsentStoryIsNotFound ==
  (/\ StoryCall
   /\ lastCall.inventory.status = "ok"
   /\ lastCall.args.storyId \notin Keys(EntriesAtCall))
  => lastCall.completion = Return(NotFound(lastCall.args.storyId))

\* C2: every handler invocation completes by returning a result object with
\* a boolean success field, whatever the arguments, the inventory and the
\* files; none throws.
C2_HandlersNeverThrow ==
  Called =>
    /\ lastCall.completion.kind = "return"
    /\ Has(Result, "success")
    /\ Result.success \in BOOLEAN

\* C2 witness: a handler whose read of the story file threw, answered with
\* success=false
C2_ReadErrorReturned ==
  /\ Returned
  /\ lastCall.op = "getStoryDocs"
  /\ Result = [success |-> FALSE, error |-> ReadErrorMessage]

(***************************************************************************)
(* Properties of the documentation pipeline                                *)
(***************************************************************************)
ComponentFields ==
  {"selector", "template", "componentCode", "properties",
   "componentDescription"}

\* the ComponentDoc field each docs field is copied from
SourceField(f) == IF f = "componentDescription" THEN "description" ELSE f

DocsReturned ==
  /\ Returned
  /\ lastCall.op = "getStoryDocs"
  /\ Result.success
  /\ Has(Result, "docs")

CandidateExists(i) == existsSync(fs.files, CandidatePath(extensions[i]))

\* the component doc extracted during the call, or none
ExtractedDoc ==
  IF lastCall.extracted = <<>> THEN None
  ELSE extractComponentDocs(fs.files, lastCall.extracted[1])

\* the call reached the text of a story file: the entry exists, its
\* importPath names a story file, and the file exists and can be read
StoryFileRead ==
  /\ lastCall.op = "getStoryDocs"
  /\ Has(lastCall.args, "storyId")
  /\ lastCall.inventory.status = "ok"
  /\ lastCall.args.storyId \in Keys(EntriesAtCall)
  /\ LET entry == GetProp(EntriesAtCall, lastCall.args.storyId) IN
       /\ Has(entry, "importPath")
       /\ ~EndsWithMdx(entry.importPath)
       /\ pathJoin(projectDir, cleanPath(entry.importPath)) = StoryFilePath
  /\ existsSync(fs.files, StoryFilePath)
  /\ fs.files[StoryFilePath].readable

StoryFileDocAtCall == extractStoryExamples(fs.files, StoryFilePath)

\* C3: whenever the docs returned by getStoryDocs contain usageExamples, a
\* component doc was extracted from a resolved component file, storyExamples
\* is present, and usageExamples has exactly the keys of storyExamples.
C3_UsageExamplesNeedBoth ==
  (DocsReturned /\ Has(Result.docs, "usageExamples")) =>
    /\ Len(lastCall.extracted) = 1
    /\ ~IsNone(ExtractedDoc)
    /\ Has(Result.docs, "storyExamples")
    /\ Keys(Result.docs.usageExamples) = Keys(Result.docs.storyExamples)
    /\ Len(Result.docs.usageExamples) = Len(Result.docs.storyExamples)

\* C3 witness: usage examples generated for two variants
C3_TwoUsageExamples ==
  /\ DocsReturned
  /\ Has(Result.docs, "usageExamples")
  /\ Cardinality(Keys(Result.docs.usageExamples)) = 2

\* C4: whenever extractComponentDocs returned a component doc for the
\* resolved component file and extractStoryExamples returned a story doc,
\* the docs hold one usage example per story variant, also when the
\* component doc has no selector.
C4_ExamplesWheneverBothExtracted ==
  (/\ DocsReturned
   /\ StoryFileRead
   /\ ~IsNone(ExtractedDoc)
   /\ ~IsNone(StoryFileDocAtCall))
  => /\ Has(Result.docs, "usageExamples")
     /\ Keys(Result.docs.usageExamples) = Keys(StoryFileDocAtCall.stories)

\* C5: the extension probe hands extractComponentDocs at most one file per
\* request, the earliest existing candidate in the order '', .ts, .tsx, .js,
\* .jsx, .vue, .svelte, and hands one over whenever a candidate exists.
C5_FirstExistingCandidate ==
  lastCall.op = "getStoryDocs" =>
    /\ Len(lastCall.extracted) <= 1
    /\ \A k \in DOMAIN lastCall.extracted :
         \E i \in DOMAIN extensions :
           /\ lastCall.extracted[k] = CandidatePath(extensions[i])
           /\ CandidateExists(i)
           /\ \A j \in 1..(i - 1) : ~CandidateExists(j)
    /\ (/\ StoryFileRead
        /\ Has(fs.files[StoryFilePath], "component")
        /\ Has(fs.files[StoryFilePath], "importSpec")
        /\ \E i \in DOMAIN extensions : CandidateExists(i))
       => Len(lastCall.extracted) = 1

\* C5 witness: the first existing candidate yields none, a later candidate
\* holds a component doc, and only the first was extracted
C5_LaterCandidateNotTried ==
  /\ lastCall.op = "getStoryDocs"
  /\ Len(lastCall.extracted) = 1
  /\ IsNone(ExtractedDoc)
  /\ \E i \in DOMAIN extensions :
       /\ CandidateExists(i)
       /\ CandidatePath(extensions[i]) # lastCall.extracted[1]
       /\ ~IsNone(extractComponentDocs(fs.files, CandidatePath(extensions[i])))

\* no component file is resolved for the story file
NoComponentResolved ==
  \/ ~Has(fs.files[StoryFilePath], "component")
  \/ ~Has(fs.files[StoryFilePath], "importSpec")
  \/ \A i \in DOMAIN extensions : ~CandidateExists(i)

\* C6: when no component file is resolved (no pattern matches, or the import
\* names no existing file under any extension), getStoryDocs still returns
\* success=true with none of the five component fields, and imports, metaCode
\* and storyExamples are what the story extraction recovered.
C6_StoryDocsWithoutComponent ==
  (StoryFileRead /\ NoComponentResolved) =>
    /\ DocsReturned
    /\ \A f \in ComponentFields : ~Has(Result.docs, f)
    /\ ~IsNone(StoryFileDocAtCall) =>
         /\ Has(Result.docs, "imports")
         /\ Result.docs.imports = StoryFileDocAtCall.imports
         /\ Has(Result.docs, "metaCode")
         /\ Result.docs.metaCode = StoryFileDocAtCall.meta
         /\ Has(Result.docs, "storyExamples")
         /\ Result.docs.storyExamples = StoryFileDocAtCall.stories

\* C6 witness: the import of the component names no existing file, and the
\* story examples are in the docs
C6_ImportUnresolved ==
  /\ StoryFileRead
  /\ Has(fs.files[StoryFilePath], "importSpec")
  /\ \A i \in DOMAIN extensions : ~CandidateExists(i)
  /\ DocsReturned
  /\ Has(Result.docs, "storyExamples")
  /\ Result.docs.storyExamples # <<>>

\* C7: for a story file with zero named variants getStoryDocs returns
\* success=true with an empty storyExamples mapping and no usage example.
C7_ZeroVariants ==
  (/\ StoryFileRead
   /\ ~IsNone(StoryFileDocAtCall)
   /\ StoryFileDocAtCall.stories = <<>>)
  => /\ DocsReturned
     /\ Has(Result.docs, "storyExamples")
     /\ Result.docs.storyExamples = <<>>
     /\ Has(Result.docs, "usageExamples") => Result.docs.usageExamples = <<>>

\* C7 witness: zero variants next to a component with a selector, so that the
\* generator ran over the empty mapping
C7_ZeroVariantsWithSelector ==
  /\ StoryFileRead
  /\ ~IsNone(StoryFileDocAtCall)
  /\ StoryFileDocAtCall.stories = <<>>
  /\ DocsReturned
  /\ Has(Result.docs, "selector")
  /\ Has(Result.docs, "usageExamples")

\* C8: the docs of getStoryDocs hold either no component field or the fields
\* of the one ComponentDoc that was extracted, each copied as it is there;
\* a failed request returns success=false without a docs object.
C8_NoPartialComponentDoc ==
  lastCall.op = "getStoryDocs" =>
    /\ Returned
    /\ ~Result.success => ~Has(Result, "docs")
    /\ Result.success =>
         /\ Has(Result, "docs")
         /\ \/ \A f \in ComponentFields : ~Has(Result.docs, f)
            \/ /\ ~IsNone(ExtractedDoc)
               /\ \A f \in ComponentFields :
                    /\ Has(Result.docs, f) <=> Has(ExtractedDoc, SourceField(f))
                    /\ Has(Result.docs, f) =>
                         Result.docs[f] = ExtractedDoc[SourceField(f)]

\* C8 witness: all five component fields copied from one ComponentDoc
C8_AllFiveCopied ==
  /\ DocsReturned
  /\ \A f \in ComponentFields : Has(Result.docs, f)
  /\ ExtractedDoc = AngularDoc

(***************************************************************************)
(* Properties of the handlers over a changing inventory                    *)
(***************************************************************************)
ListCall ==
  /\ lastCall.op \in {"listStories", "getStoriesByKind"}
  /\ ~IsUndefined(lastCall.args)

\* C9: handed an inventory without entries field or with an empty entries
\* mapping, listStories and getStoriesByKind return success=true with count 0
\* and an empty list, getStory and getStoryDocs return the not-found result;
\* a story is always reported with a tags list.
C9_EmptyInventoryHandled ==
  /\ (/\ Called
      /\ ~IsUndefined(lastCall.args)
      /\ lastCall.inventory.status = "ok"
      /\ EntriesAtCall = <<>>)
     => /\ Returned
        /\ ListCall =>
             /\ Result.success
             /\ Result.count = 0
             /\ Result.stories = <<>>
        /\ lastCall.op \in {"getStory", "getStoryDocs"} =>
             Result = NotFound(StoryIdOf(lastCall.args))
  /\ (Returned /\ lastCall.op = "listStories" /\ Result.success)
     => \A i \in DOMAIN Result.stories : Has(Result.stories[i], "tags")
  /\ (Returned /\ lastCall.op = "getStory" /\ Result.success)
     => Has(Result.story, "tags")

\* the ids of the entries of the inventory as it was at the call
IdsAtCall == {EntriesAtCall[i][2].id : i \in DOMAIN EntriesAtCall}

\* the stories a list result must hold whatever the filter: those whose
\* title is the kind asked for, or all of them when no kind is given
MustList ==
  {EntriesAtCall[i][2].id :
     i \in {j \in DOMAIN EntriesAtCall :
              \/ lastCall.op = "listStories" /\ ~Has(lastCall.args, "kind")
              \/ /\ Has(lastCall.args, "kind")
                 /\ EntriesAtCall[j][2].title = lastCall.args.kind}}

\* C10: the result of every invocation reflects the inventory as it is at
\* that invocation: an unavailable service fails the call, a list holds
\* entries of the inventory of that moment and no others, an entry present
\* at that moment is found and one absent at that moment is not found,
\* whatever earlier invocations saw.
C10_ReflectsInventoryAtCall ==
  (Called /\ ~IsUndefined(lastCall.args)) =>
    /\ Returned
    /\ lastCall.inventory.status # "ok" => ~Result.success
    /\ (lastCall.inventory.status = "ok" /\ ListCall) =>
         /\ Result.success
         /\ Result.count = Len(Result.stories)
         /\ {Result.stories[i].id : i \in DOMAIN Result.stories} \subseteq IdsAtCall
         /\ MustList \subseteq {Result.stories[i].id : i \in DOMAIN Result.stories}
    /\ (lastCall.inventory.status = "ok" /\ StoryCall) =>
         /\ lastCall.args.storyId \in Keys(EntriesAtCall) =>
              /\ Result.success \/ Result.error = ReadErrorMessage
              /\ (Result.success /\ lastCall.op = "getStory") =>
                   Result.story.id = lastCall.args.storyId
              /\ (Result.success /\ lastCall.op = "getStoryDocs") =>
                   Result.docs.name =
                     GetProp(EntriesAtCall, lastCall.args.storyId).name
         /\ lastCall.args.storyId \in StoryKeys \ Keys(EntriesAtCall) =>
              Result = NotFound(lastCall.args.storyId)

\* C10 witness: a call made after the inventory changed since the call
\* before it finds an entry of the inventory of that moment
C10_FoundAfterChange ==
  /\ Returned
  /\ lastCall.afterChange
  /\ lastCall.op = "getStory"
  /\ Has(lastCall.args, "storyId")
  /\ lastCall.args.storyId \in Keys(EntriesAtCall)
  /\ Result.success

\* the entries listStories must return for the arguments of the call, in
\* the order of the inventory: all of them when no kind is given (none, or
\* the empty string), otherwise those whose kind or title is the given kind
EntriesToList ==
  IF ~Truthy(lastCall.args, "kind") THEN EntriesAtCall
  ELSE SelectSeq(EntriesAtCall,
                 LAMBDA p : \/ Has(p[2], "kind") /\ p[2].kind = lastCall.args.kind
                            \/ Has(p[2], "title") /\ p[2].title = lastCall.args.kind)

\* C26: a successful listStories returns one story per entry it must list,
\* in the order of the entries of the inventory, no entry twice and no other
\* story, and count is the number of stories returned.
C26_ListStoriesExact ==
  (lastCall.op = "listStories" /\ Returned /\ Result.success) =>
    /\ Result.count = Len(Result.stories)
    /\ Len(Result.stories) = Len(EntriesToList)
    /\ \A i \in DOMAIN Result.stories :
         /\ Result.stories[i].id = EntriesToList[i][1]
         /\ Result.stories[i].id = EntriesToList[i][2].id
         /\ Result.stories[i].title = EntriesToList[i][2].title
    /\ \A i, j \in DOMAIN Result.stories :
         Result.stories[i].id = Result.stories[j].id => i = j

\* C26 witness: listStories with a kind returned two of the stories of the
\* inventory, in the order of its entries
C26_TwoOfKindListed ==
  /\ lastCall.op = "listStories"
  /\ Truthy(lastCall.args, "kind")
  /\ Returned /\ Result.success
  /\ Result.count = 2
  /\ Result.stories[1].id = "button--docs"
  /\ Result.stories[2].id = "button--primary"

(***************************************************************************)
(* Properties of the application over HTTP                                 *)
(***************************************************************************)
Answered == http.route # "none"

\* the exchange is a tools/call of the named tool over POST /mcp
ToolCalled(name) ==
  /\ http.route = "POST /mcp"
  /\ PropString(http.request, "method") = "tools/call"
  /\ Has(http.request, "params")
  /\ PropString(http.request.params, "name") = name

\* the getStoryDocs results the exchange reported to the client
DocsReported ==
  IF http.route = "GET /api/docs/:storyId" THEN {http.body}
  ELSE IF ToolCalled("get_story_docs") /\ http.status = 200
  THEN {http.body.result.content[1].text.json}
  ELSE {}

\* C11: the framework is detected when the application is created and is
\* one value from then on: the tool handlers of the REST routes, the MCP
\* handler and its tool handlers hold the same value; GET /api and GET /mcp
\* report it; every getStoryDocs result reports it and its usage examples are
\* the ones generateUsageExample renders for that framework, whatever the
\* project directory has become since.
C11_FrameworkFixedAtCreation ==
  /\ app.handlers.framework = app.framework
  /\ app.mcpHandler.framework = app.framework
  /\ app.mcpHandler.handlers.framework = app.framework
  /\ http.route \in {"GET /api", "GET /mcp"} => http.body.framework = app.framework
  /\ \A r \in DocsReported :
       r.success =>
         /\ r.docs.framework = app.framework
         /\ Has(r.docs, "usageExamples") =>
              r.docs.usageExamples =
                UsageExamples(r.docs, r.docs.storyExamples, app.framework)

\* C11 witness: documentation with usage examples is reported after the
\* manifest of the project changed to another framework
C11_DocsAfterManifestChange ==
  /\ \E r \in DocsReported :
       r.success /\ Has(r.docs, "usageExamples") /\ Len(r.docs.usageExamples) > 0
  /\ detectFramework(http.project) # app.framework

SupportedMethods ==
  {"initialize", "initialized", "tools/list", "tools/call", "resources/list",
   "resources/read", "ping"}

AdvertisedTools == {"list_stories", "get_story", "get_story_docs"}

\* the exchange is a POST /mcp of the given method
MethodCalled(method) ==
  http.route = "POST /mcp" /\ PropString(http.request, "method") = method

\* what the named tool returns for the arguments of the exchange, over the
\* inventory and the project directory as they were at the request
ToolResultAtRequest(name) ==
  LET args == Prop(http.request.params, "arguments") IN
  CASE name = "list_stories" -> listStories(http.inventory, args).value
    [] name = "get_story" -> getStory(http.inventory, http.project, args).value
    [] OTHER ->
         getStoryDocs(http.inventory, http.project, app.mcpHandler.handlers,
                      args).completion.value

\* C16: tools/list and GET /mcp advertise exactly list_stories, get_story and
\* get_story_docs; tools/call with one of these names invokes one handler and
\* answers with a result; tools/call with any other name is answered with
\* HTTP 200 and JSON-RPC error -32601, and no handler is invoked.
C16_AdvertisedToolsAreDispatched ==
  /\ (MethodCalled("tools/list") /\ http.status = 200) =>
       {http.body.result.tools[i].name : i \in DOMAIN http.body.result.tools}
         = AdvertisedTools
  /\ http.route = "GET /mcp" =>
       {http.body.tools[i].name : i \in DOMAIN http.body.tools} = AdvertisedTools
  /\ \A name \in AdvertisedTools :
       ToolCalled(name) =>
         /\ http.status = 200
         /\ Has(http.body, "result") /\ ~Has(http.body, "error")
         /\ Len(http.invoked) = 1
  /\ \A name \in (ToolNameArgs \cup {"undefined"}) \ AdvertisedTools :
       ToolCalled(name) =>
         /\ http.status = 200
         /\ Has(http.body, "error") /\ ~Has(http.body, "result")
         /\ http.body.error.code = -32601
         /\ http.invoked = <<>>

\* C16 witness: a tools/call of get_stories_by_kind, a handler that is not a
\* tool, was answered
C16_UnknownToolAnswered ==
  /\ ToolCalled("get_stories_by_kind")
  /\ http.inventory.status = "ok"
  /\ Has(http.body, "error")

\* C17: a POST /mcp request whose method is not supported is answered with
\* HTTP 200 and JSON-RPC error -32601 and no result; no handler is invoked,
\* and handling it changes nothing of the server: not the inventory, the
\* project directory, the application, the SSE sessions or the static build.
C17_UnknownMethodRejected ==
  [][ ( /\ http' # http
        /\ http'.route = "POST /mcp"
        /\ PropString(http'.request, "method") \notin SupportedMethods )
      => ( /\ http'.status = 200
           /\ Has(http'.body, "error") /\ ~Has(http'.body, "result")
           /\ http'.body.error.code = -32601
           /\ http'.invoked = <<>>
           /\ UNCHANGED <<service, fs, handlerVars, app, initialized, sessions,
                          streams, timers, inflight, staticDir, clock>> ) ]_vars

\* C17 witness: prompts/list was answered
C17_UnknownMethodAnswered ==
  /\ MethodCalled("prompts/list")
  /\ Has(http.request, "id")
  /\ http.status = 200

\* C18: a tools/call of a known tool is answered with HTTP 200 and a result
\* whose content is an array with first element of type 'text' holding the
\* JSON serialisation of what the handler returned, whatever the inventory:
\* a failed result is wrapped like a successful one, never a JSON-RPC error.
C18_ToolResultWrapped ==
  \A name \in AdvertisedTools :
    ToolCalled(name) =>
      /\ http.status = 200
      /\ ~Has(http.body, "error")
      /\ Len(http.body.result.content) >= 1
      /\ http.body.result.content[1].type = "text"
      /\ http.body.result.content[1].text = Stringify(http.invoked[1].completion.value)
      /\ http.invoked[1].completion.value =
           (IF name = "list_stories" /\ ~Has(http.request.params, "arguments")
            THEN listStories(http.inventory, EmptyObject).value
            ELSE ToolResultAtRequest(name))

\* C18 witness: the result of a tool that failed, the inventory being
\* unreachable, was wrapped
C18_FailureWrapped ==
  /\ ToolCalled("get_story")
  /\ http.inventory.status = "unreachable"
  /\ http.status = 200
  /\ ~http.body.result.content[1].text.json.success

WasInFlight == http.route = "POST /mcp" /\ Has(http, "overlapped")

C15_ResponseEchoesId ==
  http.route = "POST /mcp" =>
    /\ http.status \in {200, 500}
    /\ http.body.jsonrpc = "2.0"
    /\ Has(http.body, "id") <=> Has(http.request, "id")
    /\ Has(http.request, "id") => http.body.id = http.request.id

\* C15 witness: the request with id 2 was answered while a request with id 1
\* was still in flight
C15_AnsweredOutOfOrder ==
  /\ WasInFlight /\ http.overlapped
  /\ Has(http.request, "id") /\ http.request.id = 2
  /\ http.body.id = 2
  /\ Len(inflight) = 1
  /\ Has(inflight[1].request, "id") /\ inflight[1].request.id = 1

(***************************************************************************)
(* Properties of the SSE transport                                         *)
(***************************************************************************)
\* a step of a route in which a handler ran
HandlerInvoked ==
  /\ PostSseMessages \/ GetApiDocs \/ GetApiStoriesByKind
  /\ http'.invoked # <<>>

\* C13: a step in which a handler runs, whether it returns success or a
\* failure, changes nothing but the record of the exchange and, over SSE, the
\* stream the route writes the response to: the project directory, the
\* inventory, the session registry, the keep-alive intervals, the closures
\* of the application and the static build are as before.
C13_HandlersSideEffectFree ==
  [][ HandlerInvoked =>
        /\ UNCHANGED <<service, fs, handlerVars, app, initialized, sessions,
                       timers, inflight, staticDir, clock>>
        /\ Len(streams') = Len(streams)
        /\ \A c \in DOMAIN streams :
             /\ streams'[c].open = streams[c].open
             /\ streams'[c].sessionId = streams[c].sessionId
             /\ \/ streams'[c].events = streams[c].events
                \/ /\ http'.route = "POST /sse/messages"
                   /\ sessions[http'.request.query.sessionId].res = c
                   /\ Len(streams'[c].events) = Len(streams[c].events) + 1
                   /\ SubSeq(streams'[c].events, 1, Len(streams[c].events))
                        = streams[c].events ]_vars

\* C13 witness: getStory ran and failed while a session was registered and
\* the project directory held files
C13_FailedWithSessionOpen ==
  /\ http.route = "POST /sse/messages"
  /\ Len(http.invoked) = 1
  /\ http.invoked[1].op = "getStory"
  /\ ~http.invoked[1].completion.value.success
  /\ DOMAIN sessions # {}
  /\ DOMAIN fs.files # {}

\* C20: on every connection the first event written is the endpoint event
\* whose data is the /sse/messages URL with the sessionId of that
\* connection, and no later event is an endpoint event; a registered session
\* is registered under the id its stream announced, and a connection whose
\* client is still there is registered.
C20_EndpointEventFirst ==
  /\ \A c \in DOMAIN streams :
       /\ Len(streams[c].events) >= 1
       /\ streams[c].events[1] = EndpointEvent(streams[c].sessionId)
       /\ \A i \in 2..Len(streams[c].events) :
            streams[c].events[i] = PingComment
            \/ streams[c].events[i].event = "message"
       /\ streams[c].open =>
            /\ streams[c].sessionId \in DOMAIN sessions
            /\ sessions[streams[c].sessionId].res = c
  /\ \A sessionId \in DOMAIN sessions :
       /\ sessions[sessionId].res \in DOMAIN streams
       /\ streams[sessions[sessionId].res].events[1].data = messagesUrl(sessionId)

\* C20 witness: a message and a ping were written to the stream of the
\* second connection, after its endpoint event
C20_MessageAndPingAfterEndpoint ==
  /\ Len(streams) = 2
  /\ Len(streams[2].events) = 3
  /\ streams[2].events[1] = EndpointEvent(uuidv4(2))
  /\ \E i, j \in 2..3 :
       /\ streams[2].events[i] = PingComment
       /\ streams[2].events[j] # PingComment

\* C21: a POST /sse/messages with the id of a registered session is
\* answered 202 and writes exactly one 'message' event, to the stream of
\* that session and to no other; without sessionId it is answered 400, with
\* an unknown sessionId 404, and in both cases no handler runs and nothing is
\* written to any stream.
C21_MessagesReachNamedSession ==
  [][ PostSseMessages =>
        LET query == http'.request.query IN
        IF ~Has(query, "sessionId")
        THEN http'.status = 400 /\ http'.invoked = <<>> /\ UNCHANGED streams
        ELSE IF query.sessionId \notin DOMAIN sessions
        THEN http'.status = 404 /\ http'.invoked = <<>> /\ UNCHANGED streams
        ELSE
          LET res == sessions[query.sessionId].res
              before == streams[res].events
              after == streams'[res].events
          IN
            /\ http'.status = 202
            /\ Len(after) = Len(before) + 1
            /\ SubSeq(after, 1, Len(before)) = before
            /\ after[Len(after)].event = "message"
            /\ \A c \in DOMAIN streams : c # res => streams'[c] = streams[c] ]_vars

\* C22: a POST to /sse, with the sessionId of a registered session or
\* without a sessionId, is accepted: it is answered with a 2xx status.
C22_PostSseAccepted ==
  ( /\ http.route = "POST /sse"
    /\ \/ ~Has(http.request.query, "sessionId")
       \/ http.request.query.sessionId \in DOMAIN sessions )
  => http.status \in {200, 202}

StoryRoutes == {"GET /api/stories/:storyId", "GET /api/docs/:storyId"}
ListRoutes == {"GET /api/stories", "GET /api/stories/kind/:kind"}

\* the inventory the request saw was served and parsed, and does not hold
\* the story the request names
AbsentFromReachableInventory ==
  /\ http.inventory.status = "ok"
  /\ http.request.storyId \notin Keys(EntriesOrEmpty(http.inventory.data))

\* C23: the two story routes answer 200 exactly when the handler result
\* has success = true, 404 exactly when the handler failed and the story is
\* absent from an inventory that was reachable, and 503 for every other
\* failure; the two list routes answer 200 exactly on success and 503
\* otherwise; the body is the handler result and carries the success field.
C23_RestStatusMapping ==
  /\ http.route \in StoryRoutes \cup ListRoutes =>
       /\ Len(http.invoked) = 1
       /\ http.body = http.invoked[1].completion.value
       /\ Has(http.body, "success")
       /\ http.status = 200 <=> http.body.success
  /\ http.route \in StoryRoutes =>
       /\ http.status \in {200, 404, 503}
       /\ http.status = 404 <=>
            (~http.body.success /\ AbsentFromReachableInventory)
  /\ http.route \in ListRoutes => http.status \in {200, 503}

\* C23 witness: GET /api/docs/:storyId was answered 503 for a story the
\* inventory holds, the story file being unreadable
C23_DocsUnavailableForListedStory ==
  /\ http.route = "GET /api/docs/:storyId"
  /\ http.status = 503
  /\ http.inventory.status = "ok"
  /\ ~AbsentFromReachableInventory

\* C24: GET /api and GET /mcp are answered 200 with their descriptions,
\* whatever the inventory service does and however many SSE sessions are
\* registered: GET /api names 'Storybook MCP API' and lists the rest and mcp
\* endpoints; GET /mcp names 'storybook-mcp-api' with its protocol version,
\* its three tools and transport 'streamable-http'; no handler runs.
C24_DescriptionsAlwaysServed ==
  /\ http.route = "GET /api" =>
       /\ http.status = 200
       /\ http.invoked = <<>>
       /\ http.body.success
       /\ http.body.name = "Storybook MCP API"
       /\ Len(http.body.endpoints.rest) = 5
       /\ Len(http.body.endpoints.mcp) = 4
  /\ http.route = "GET /mcp" =>
       /\ http.status = 200
       /\ http.invoked = <<>>
       /\ http.body.name = "storybook-mcp-api"
       /\ http.body.protocolVersion = "2024-11-05"
       /\ http.body.transport = "streamable-http"
       /\ {http.body.tools[i].name : i \in DOMAIN http.body.tools} = AdvertisedTools

\* C24 witness: GET /api was answered while the inventory service was
\* unreachable and two SSE sessions were registered
C24_ServedWhileUnreachable ==
  /\ http.route = "GET /api"
  /\ http.inventory.status = "unreachable"
  /\ service.status = "unreachable"
  /\ Cardinality(DOMAIN sessions) = 2

\* the text of the content that tools/call returns for the named tool and
\* the arguments, over the inventory and the project directory the exchange
\* saw
ToolText(name, args) ==
  handleRequest([jsonrpc |-> "2.0", id |-> 1, method |-> "tools/call",
                 params |-> [name |-> name, arguments |-> args]],
                http.inventory, http.project,
                app.mcpHandler).completion.value.result.content[1].text

\* C25: the body of GET /api/stories, GET /api/stories/:storyId and GET
\* /api/docs/:storyId is the result object whose JSON serialisation
\* tools/call returns as text for list_stories, get_story and get_story_docs
\* with the same arguments over the same inventory and project directory.
C25_RestAndMcpAgree ==
  /\ http.route = "GET /api/stories" =>
       ToolText("list_stories", http.request) = Stringify(http.body)
  /\ http.route = "GET /api/stories/:storyId" =>
       ToolText("get_story", http.request) = Stringify(http.body)
  /\ http.route = "GET /api/docs/:storyId" =>
       ToolText("get_story_docs", http.request) = Stringify(http.body)

\* C25 witness: GET /api/stories?kind= returned some of the stories of the
\* inventory and not all of them
C25_StoriesFilteredByKind ==
  /\ http.route = "GET /api/stories"
  /\ Has(http.request, "kind")
  /\ http.status = 200
  /\ http.body.count = 1
  /\ Len(http.inventory.data.entries) = 2

\* the files a completed run left in the named directory of api
FilesIn(sub) ==
  {f \in DOMAIN lastCall.after.api : Len(f) = 4 /\ f[2] = sub}

\* C30: after a completed run of generateStaticApi, api/stories and api/docs
\* each hold as many files as index.json has entries, and storyCount and
\* docsCount are that number.
C30_OneFilePerEntry ==
  (lastCall.op = "generateStaticApi" /\ lastCall.completion.kind = "return") =>
    LET n == Len(EntriesOrEmpty(lastCall.build.index)) IN
    /\ lastCall.completion.value.storyCount = n
    /\ lastCall.completion.value.docsCount = n
    /\ Cardinality(FilesIn("stories")) = n
    /\ Cardinality(FilesIn("docs")) = n

(***************************************************************************)
(* Properties of the command line                                          *)
(***************************************************************************)
Ran == lastCall.op = "cli"
Smallest(S) == CHOOSE i \in S : \A j \in S : i <= j

\* The output directories the build-storybook targets of angular.json
\* declare, in the order of the projects; none when angular.json is absent,
\* cannot be read or is no JSON object
DeclaredOutputDirs(files) ==
  LET at == <<"project", "angular.json">>
      declares(e) == /\ Has(e[2], "architect")
                     /\ Has(e[2].architect, "build-storybook")
                     /\ e[2].architect["build-storybook"].options.outputDir.value # <<>>
  IN IF /\ at \in DOMAIN files
        /\ files[at].readable
        /\ Has(files[at], "json")
        /\ Has(files[at].json, "projects")
     THEN LET declaring == SelectSeq(files[at].json.projects, declares) IN
          [i \in DOMAIN declaring |->
             <<"project">> \o
             declaring[i][2].architect["build-storybook"].options.outputDir.value]
     ELSE <<>>

\* The directory the documented priority selects
PriorityOutputDir(files) ==
  LET declared == DeclaredOutputDirs(files)
      existing == {i \in DOMAIN declared : declared[i] \in DOMAIN files}
      built == {i \in DOMAIN defaultDirs :
                  /\ <<"project">> \o defaultDirs[i] \in DOMAIN files
                  /\ <<"project">> \o defaultDirs[i] \o <<"index.json">>
                       \in DOMAIN files}
  IN IF existing # {}
     THEN [dir |-> declared[Smallest(existing)], source |-> "angular.json"]
     ELSE IF built # {}
     THEN [dir |-> <<"project">> \o defaultDirs[Smallest(built)],
           source |-> "auto-detected"]
     ELSE Null

\* C29: detectStorybookOutputDir returns the output directory of the first
\* project of angular.json, in declaration order, whose declared
\* build-storybook outputDir exists, before any default directory; otherwise
\* the first of storybook-static, dist/storybook, build/storybook that exists
\* and holds index.json; otherwise null; an angular.json that cannot be read
\* or parsed is ignored.
C29_DetectionPriority ==
  (Ran /\ Has(lastCall.run, "detected")) =>
    lastCall.run.detected = PriorityOutputDir(lastCall.project.files)

\* a run detected the output directory of the second project although
\* storybook-static holds a build, the directory of the first being absent
C29_SecondProjectBeforeDefault ==
  /\ Ran /\ Has(lastCall.run, "detected")
  /\ lastCall.run.detected # Null
  /\ lastCall.run.detected.source = "angular.json"
  /\ Len(DeclaredOutputDirs(lastCall.project.files)) = 2
  /\ lastCall.run.detected.dir = DeclaredOutputDirs(lastCall.project.files)[2]
  /\ <<"project", "storybook-static", "index.json">> \in DOMAIN lastCall.project.files

RunCalled(name) == \E i \in DOMAIN lastCall.run.calls : lastCall.run.calls[i] = name
GenerateMode == Ran /\ lastCall.options.generateApi # Undefined
PathGiven(option) == option \notin {Undefined, Flag} /\ option.value # <<>>

\* the directory --generate-api names or the detection found
GenerateTarget ==
  IF PathGiven(lastCall.options.generateApi)
  THEN <<"project">> \o lastCall.options.generateApi.value
  ELSE lastCall.run.detected.dir

\* C28: with --generate-api the program never starts a server, whatever
\* --static, --no-proxy and --port say: it exits with code 0 after the files
\* were generated, and with code 1 when no build directory was detected or
\* the generation failed.
C28_GenerateApiExitsWithoutServer ==
  GenerateMode =>
    /\ lastCall.run.outcome = "exit"
    /\ ~RunCalled("startServer") /\ ~RunCalled("startStorybookProcess")
    /\ app = EmptyObject /\ service.status = "unreachable"
    /\ lastCall.run.code \in {0, 1}
    /\ (~PathGiven(lastCall.options.generateApi)
        /\ PriorityOutputDir(lastCall.project.files) = Null)
         => lastCall.run.code = 1 /\ ~RunCalled("generateStaticApi")
            /\ fs = lastCall.project
    /\ RunCalled("generateStaticApi") =>
         IF GenerateTarget \o <<"index.json">> \in DOMAIN lastCall.project.files
         THEN /\ lastCall.run.code = 0
              /\ GenerateTarget \o <<"api", "index.json">> \in DOMAIN fs.files
              /\ GenerateTarget \o <<"api", "stories.json">> \in DOMAIN fs.files
         ELSE lastCall.run.code = 1 /\ fs = lastCall.project
    /\ lastCall.run.code = 0 => RunCalled("generateStaticApi")

\* --generate-api together with --static and --port 8080: the files were
\* generated into the detected build and the program exited with code 0
C28_GeneratedDespiteStatic ==
  /\ GenerateMode
  /\ lastCall.options.generateApi = Flag
  /\ lastCall.options.static = Flag
  /\ lastCall.options.port = "8080"
  /\ lastCall.run.code = 0
  /\ lastCall.run.detected.dir \o <<"api", "index.json">> \in DOMAIN fs.files

StaticMode ==
  Ran /\ lastCall.options.generateApi = Undefined
      /\ lastCall.options.static # Undefined

\* the directory --static names or the detection found, none when the
\* detection found nothing
StaticTarget ==
  IF PathGiven(lastCall.options.static)
  THEN <<"project">> \o lastCall.options.static.value
  ELSE IF lastCall.run.detected # Null THEN lastCall.run.detected.dir
  ELSE <<>>

C32_NoWriteAfterDisconnect ==
  /\ \A n \in DOMAIN streams : ~Has(streams[n], "lost")
  /\ (/\ http.route = "POST /sse/messages"
      /\ Has(http, "registeredAtWrite")
      /\ ~http.registeredAtWrite)
       => http.status # 202

(***************************************************************************)
(* Properties of the shutdown                                              *)
(***************************************************************************)
\* C33: after SIGINT or SIGTERM the Storybook child process, if one was
\* started, is killed before the HTTP server is closed, and the process
\* eventually exits with code 0, in every state of the server: with SSE
\* connections open and with the readiness wait still running.
C33_ShutdownExits ==
  (lastCall.run.outcome = "closing")
    ~> (lastCall.run.outcome = "exit" /\ lastCall.run.code = 0)

(***************************************************************************)
(* Properties of the proxy                                                 *)
(***************************************************************************)
Proxying == lastCall.op = "cli" /\ Has(lastCall.run, "config") /\ lastCall.run.config.proxy
Requested == http.route = "request"

\* the request paths of the runs that begin with /mcp, /sse or /api
ApiPrefixed(path) ==
  path # <<>> /\ Head(path) \in {"mcp", "sse", "api", "apiary"}

\* the requests the routes of createApp are registered for
RouteRequest ==
  \/ http.method \in {"GET", "POST"} /\ http.path = <<"mcp">>
  \/ http.method = "GET" /\ http.path = <<"sse">>
  \/ http.method = "POST" /\ http.path = <<"sse", "messages">>
  \/ /\ http.method = "GET"
     /\ http.path \in {<<"api">>, <<"api", "stories">>,
                       <<"api", "stories", "button--primary">>,
                       <<"api", "docs", "button--primary">>,
                       <<"api", "stories", "kind", "Forms">>}

\* a request that cors() and express.json() pass on to the routes
PassedOn == http.method # "OPTIONS" /\ http.body # [malformed |-> TRUE]

====
